---- MODULE Spec2Model ----
(***************************************************************************)
(* A model of the trading engine's core: the rule engine                   *)
(* (backend/app/engine/rule_engine.py), the alert generator with its rules *)
(* cache (backend/app/services/alert_generator.py) and the WebSocket       *)
(* connection manager (backend/app/api/v1/websocket.py).                   *)
(*                                                                         *)
(* The specifications of the module each drive one component: SpecEngine  *)
(* the rule engine, SpecGen and SpecTicks the alert generator's asyncio    *)
(* tasks, SpecHub the connection manager's tasks.  Each leaves the other   *)
(* components' variables unchanged.                                        *)
(***************************************************************************)
EXTENDS Integers, Sequences, FiniteSets, TLC

\* the rule engine
VARIABLES
    rules,          \* RuleEngine.rules: the loaded list of RuleDefinition
    market_data,    \* the snapshot handed to evaluate_all_rules
    evalOut,        \* what the last evaluate_all_rules call produced
    probe           \* the last call of one of the engine's functions on its own

engineVars == <<rules, market_data, evalOut, probe>>

\* the alert generator and the store
VARIABLES
    dbRules,            \* the store: ids of the rows of `rules` with is_active
    running,            \* AlertGenerator._running
    rules_cache,        \* AlertGenerator._rules_cache: the ids it maps
    rule_engine,        \* AlertGenerator._rule_engine: its rules, by row id
    last_cache_refresh, \* AlertGenerator._last_cache_refresh, NoTime for None
    lock,               \* AlertGenerator._lock: the task holding it, 0 if free
    waiters,            \* the lock's FIFO of waiting tasks
    clock,              \* datetime.utcnow(), in seconds
    tasks,              \* the coroutines in flight, one per task slot
    alertsDb,           \* the store: the committed rows of `alerts`
    hubCalls,           \* alert id -> times handed to broadcast_to_channel
    ticksStarted,       \* on_market_data calls that found the generator running
    tickOutcome,        \* how each on_market_data call that ran has ended
    stopped,            \* stop() has returned and start() was not called since
    callLog,            \* the direct refresh_rules_cache calls, in order of entry
    invalidation,       \* the last invalidate_cache() and the store load after it
    returned_at_once    \* the call that has just returned at its first check, or ""

genVars ==
    <<dbRules, running, rules_cache, rule_engine, last_cache_refresh, lock,
      waiters, clock, tasks, alertsDb, hubCalls, ticksStarted, tickOutcome, stopped,
      callLog, invalidation, returned_at_once>>

\* the connection manager, the endpoint and the upstream feed
VARIABLES
    active_connections,   \* ConnectionManager.active_connections: its keys
    subscriptions,        \* ConnectionManager.subscriptions: channel -> set of ids
    symbol_subscriptions, \* ConnectionManager.symbol_subscriptions: symbol -> set of ids
    subscribed_symbols,   \* StreamManager._subscribed_symbols
    ep,                   \* the endpoint's handler of each connection: where it is
    bc,                   \* the broadcasts in flight, one per slot
    last_call,            \* the subscribe or unsubscribe call that has just returned
    last_reply            \* what the handler has just done with a received message

hubVars ==
    <<active_connections, subscriptions, symbol_subscriptions, subscribed_symbols,
      ep, bc, last_call, last_reply>>

vars == <<engineVars, genVars, hubVars>>

\* an operation of one component leaves the other components' state alone
EngineOnly == UNCHANGED <<genVars, hubVars>>

GenOnly == UNCHANGED <<engineVars, hubVars>>

HubOnly == UNCHANGED <<engineVars, genVars>>

(***************************************************************************)
(* Python values.  A snapshot is a dict: a function whose DOMAIN is the    *)
(* set of keys present.  A value is a number, None, or a string; a string  *)
(* either parses as a float ("numstr", n holds the parsed number) or not;  *)
(* "big" is an int beyond the range of float, as a rule's YAML may hold.   *)
(* Numbers are integers; prices computed by calculate_targets are in       *)
(* hundredths and confidence scores are in hundredths.                     *)
(***************************************************************************)
Num(n) == [t |-> "num", n |-> n, s |-> ""]

NoneV == [t |-> "none", n |-> 0, s |-> ""]

Str(s) == [t |-> "str", n |-> 0, s |-> s]

NumStr(s, n) == [t |-> "numstr", n |-> n, s |-> s]

Big == [t |-> "big", n |-> 0, s |-> ""]

\* isinstance(v, str)
IsStr(v) == v.t \in {"str", "numstr"}

\* dict.get(key): None when the key is absent
DictGet(d, k) == IF k \in DOMAIN d THEN d[k] ELSE NoneV

\* dict.get(key, 0)
DictGet0(d, k) == IF k \in DOMAIN d THEN d[k] ELSE Num(0)

\* float(v): ValueError for a non-numeric string, TypeError for None
\* (ok FALSE), OverflowError for an int too large (overflow)
ToFloat(v) ==
    IF v.t \in {"num", "numstr"} THEN [ok |-> TRUE, n |-> v.n, overflow |-> FALSE]
    ELSE [ok |-> FALSE, n |-> 0, overflow |-> v.t = "big"]

\* Python truthiness of a value: None, 0 and "" are false
Truthy(v) ==
    CASE v.t = "none" -> FALSE
      [] v.t = "num" -> v.n # 0
      [] v.t = "big" -> TRUE
      [] OTHER -> v.s # ""

\* OperatorType and RuleEngine.OPERATORS
OperatorType == {">", ">=", "<", "<=", "==", "!="}

OPERATORS(op, a, b) ==
    CASE op = ">" -> a > b
      [] op = ">=" -> a >= b
      [] op = "<" -> a < b
      [] op = "<=" -> a <= b
      [] op = "==" -> a = b
      [] op = "!=" -> a # b

\* RuleFilters: each bound is None (unset) or a number.  RuleTargets /
\* RuleConfidence: an unset Optional number is 0 here, the code only testing
\* its truth value (None and 0 are both false).
NoFilters ==
    [present |-> FALSE, min_price |-> NoneV, max_price |-> NoneV, min_volume |-> NoneV]

Filters(minp, maxp, minv) ==
    [present |-> TRUE, min_price |-> minp, max_price |-> maxp, min_volume |-> minv]

NoTargets ==
    [present |-> FALSE, stop_loss_percent |-> 0, stop_loss_atr_multiplier |-> 0,
     target_percent |-> 0, target_rr_ratio |-> 0]

Targets(slp, slatr, tp, rr) ==
    [present |-> TRUE, stop_loss_percent |-> slp, stop_loss_atr_multiplier |-> slatr,
     target_percent |-> tp, target_rr_ratio |-> rr]

NoConfidence == [present |-> FALSE, base_score |-> 70, modifiers |-> <<>>]

Confidence(base, mods) == [present |-> TRUE, base_score |-> base, modifiers |-> mods]

\* A modifier's condition string, as str.split() sees it: its tokens.
Modifier(tokens, adj) == [condition |-> tokens, adjustment |-> adj]

Condition(f, op, v) == [field |-> f, operator |-> op, value |-> v]

RuleDefinition(name, enabled, priority, conditions, filters, targets, confidence) ==
    [name |-> name, enabled |-> enabled, priority |-> priority,
     conditions |-> conditions, filters |-> filters, targets |-> targets,
     confidence |-> confidence]

(***************************************************************************)
(* RuleEngine                                                              *)
(***************************************************************************)

\* evaluate_condition raises: float() of an int too large raises
\* OverflowError, which `except (ValueError, TypeError)` does not catch.  The
\* field value is converted first; a failure of it that is caught ends the call.
evaluate_condition_raises(condition, md) ==
    LET field_value == DictGet(md, condition.field)
        compare_value ==
            IF IsStr(condition.value) /\ condition.value.s \in DOMAIN md
            THEN md[condition.value.s]
            ELSE condition.value
        a == ToFloat(field_value)
        b == ToFloat(compare_value)
    IN  /\ field_value.t # "none"
        /\ condition.operator \in OperatorType
        /\ a.overflow \/ (a.ok /\ b.overflow)

\* RuleEngine.evaluate_condition, when it returns
evaluate_condition(condition, md) ==
    LET field_value == DictGet(md, condition.field)
        compare_value ==
            IF IsStr(condition.value) /\ condition.value.s \in DOMAIN md
            THEN md[condition.value.s]
            ELSE condition.value
        a == ToFloat(field_value)
        b == ToFloat(compare_value)
    IN  IF field_value.t = "none" THEN FALSE
        ELSE IF condition.operator \notin OperatorType THEN FALSE
        ELSE IF ~a.ok \/ ~b.ok THEN FALSE       \* except (ValueError, TypeError)
        ELSE OPERATORS(condition.operator, a.n, b.n)

\* One bound of check_filters: `bound and value <op> bound`.  The comparison of
\* None or a string with a number raises TypeError, which nothing here catches.
FilterBound(bound, value, below) ==
    IF ~Truthy(bound) THEN "pass"
    ELSE IF value.t # "num" THEN "raise"
    ELSE IF below /\ value.n < bound.n THEN "block"
    ELSE IF ~below /\ value.n > bound.n THEN "block"
    ELSE "pass"

\* RuleEngine.check_filters: "pass", "block", or "raise" (TypeError)
check_filters(filters, md) ==
    LET price == DictGet0(md, "price")
        volume == DictGet0(md, "volume")
        b1 == FilterBound(filters.min_price, price, TRUE)
        b2 == FilterBound(filters.max_price, price, FALSE)
        b3 == FilterBound(filters.min_volume, volume, TRUE)
    IN  IF ~filters.present THEN "pass"
        ELSE IF b1 # "pass" THEN b1
        ELSE IF b2 # "pass" THEN b2
        ELSE b3

\* calculate_targets taking the ratio target from a stop-loss that was not
\* computed (as 0)
calculate_targets_ratio_without_stop_loss(entry_price, targets, md) ==
    LET none == [exc |-> FALSE, stop_loss |-> NoneV, target_price |-> NoneV]
        raise == [exc |-> TRUE, stop_loss |-> NoneV, target_price |-> NoneV]
        atr == DictGet0(md, "atr")
        numEntry == entry_price.t = "num"
        slRaises ==
            IF targets.stop_loss_percent # 0 THEN ~numEntry
            ELSE IF targets.stop_loss_atr_multiplier # 0 /\ Truthy(atr)
                 THEN atr.t # "num" \/ ~numEntry
            ELSE FALSE
        stop_loss ==
            IF targets.stop_loss_percent # 0
            THEN Num(entry_price.n * (100 + targets.stop_loss_percent))
            ELSE IF targets.stop_loss_atr_multiplier # 0 /\ Truthy(atr)
                 THEN Num(100 * (entry_price.n - atr.n * targets.stop_loss_atr_multiplier))
            ELSE NoneV
        tpRaises ==
            IF targets.target_percent # 0 THEN ~numEntry
            ELSE FALSE      \* with a truthy stop_loss the entry price is a number
        target_price ==
            IF targets.target_percent # 0
            THEN Num(entry_price.n * (100 + targets.target_percent))
            ELSE IF targets.target_rr_ratio # 0 /\ numEntry
                 THEN Num(100 * entry_price.n
                          + (100 * entry_price.n - stop_loss.n) * targets.target_rr_ratio)
            ELSE NoneV
    IN  IF ~targets.present THEN none
        ELSE IF slRaises \/ tpRaises THEN raise
        ELSE [exc |-> FALSE, stop_loss |-> stop_loss, target_price |-> target_price]

\* RuleEngine.calculate_targets.  entry_price is the snapshot's price value
\* (market_data.get("price", 0)); the results are in hundredths.  Arithmetic
\* on None or a string raises TypeError.
calculate_targets(entry_price, targets, md) ==
    LET none == [exc |-> FALSE, stop_loss |-> NoneV, target_price |-> NoneV]
        raise == [exc |-> TRUE, stop_loss |-> NoneV, target_price |-> NoneV]
        atr == DictGet0(md, "atr")
        numEntry == entry_price.t = "num"
        slRaises ==
            IF targets.stop_loss_percent # 0 THEN ~numEntry
            ELSE IF targets.stop_loss_atr_multiplier # 0 /\ Truthy(atr)
                 THEN atr.t # "num" \/ ~numEntry
            ELSE FALSE
        stop_loss ==
            IF targets.stop_loss_percent # 0
            THEN Num(entry_price.n * (100 + targets.stop_loss_percent))
            ELSE IF targets.stop_loss_atr_multiplier # 0 /\ Truthy(atr)
                 THEN Num(100 * (entry_price.n - atr.n * targets.stop_loss_atr_multiplier))
            ELSE NoneV
        tpRaises ==
            IF targets.target_percent # 0 THEN ~numEntry
            ELSE FALSE      \* with a truthy stop_loss the entry price is a number
        target_price ==
            IF targets.target_percent # 0
            THEN Num(entry_price.n * (100 + targets.target_percent))
            ELSE IF targets.target_rr_ratio # 0 /\ Truthy(stop_loss)
                 THEN Num(100 * entry_price.n
                          + (100 * entry_price.n - stop_loss.n) * targets.target_rr_ratio)
            ELSE NoneV
    IN  IF ~targets.present THEN none
        ELSE IF slRaises \/ tpRaises THEN raise
        ELSE [exc |-> FALSE, stop_loss |-> stop_loss, target_price |-> target_price]

\* RuleEngine._evaluate_modifier_condition: the string is split into tokens;
\* anything but three tokens, a missing or None field, a literal or a field
\* value that float() rejects, or an unknown operator gives False.
evaluate_modifier_condition(tokens, md) ==
    IF Len(tokens) # 3 THEN FALSE
    ELSE LET field_value == DictGet(md, tokens[1].s)
             lit == ToFloat(tokens[3])
             fv == ToFloat(field_value)
         IN  IF field_value.t = "none" THEN FALSE
             ELSE IF ~lit.ok THEN FALSE
             ELSE IF tokens[2].s \notin OperatorType THEN FALSE
             ELSE IF ~fv.ok THEN FALSE
             ELSE OPERATORS(tokens[2].s, fv.n, lit.n)

RECURSIVE SumAdjustments(_, _)
SumAdjustments(modifiers, md) ==
    IF modifiers = <<>> THEN 0
    ELSE (IF evaluate_modifier_condition(Head(modifiers).condition, md)
          THEN Head(modifiers).adjustment ELSE 0)
         + SumAdjustments(Tail(modifiers), md)

Max(a, b) == IF a >= b THEN a ELSE b

Min(a, b) == IF a <= b THEN a ELSE b

\* calculate_confidence without its clamp
calculate_confidence_unclamped(confidence_config, md) ==
    IF ~confidence_config.present THEN 70
    ELSE confidence_config.base_score
         + SumAdjustments(confidence_config.modifiers, md)

\* RuleEngine.calculate_confidence, in hundredths
calculate_confidence(confidence_config, md) ==
    IF ~confidence_config.present THEN 70
    ELSE Max(0, Min(100, confidence_config.base_score
                         + SumAdjustments(confidence_config.modifiers, md)))

\* RuleEvaluationResult(triggered=False, rule_name=rule.name)
NotTriggered(rule) ==
    [exc |-> FALSE, triggered |-> FALSE, rule_name |-> rule.name, confidence |-> 0,
     entry_price |-> NoneV, stop_loss |-> NoneV, target_price |-> NoneV,
     matched_conditions |-> <<>>]

Raised(rule) == [NotTriggered(rule) EXCEPT !.exc = TRUE]

\* the `for condition in rule.conditions` of evaluate_rule: "match" when
\* every condition is true, "nomatch" at the first that is false, "raise"
\* when the evaluation of one that is reached raises
RECURSIVE MatchConditions(_, _)
MatchConditions(conditions, md) ==
    IF conditions = <<>> THEN "match"
    ELSE IF evaluate_condition_raises(Head(conditions), md) THEN "raise"
    ELSE IF ~evaluate_condition(Head(conditions), md) THEN "nomatch"
    ELSE MatchConditions(Tail(conditions), md)

\* RuleEngine.evaluate_rule
evaluate_rule(rule, md) ==
    LET gate == check_filters(rule.filters, md)
        matched == MatchConditions(rule.conditions, md)
        entry_price == DictGet0(md, "price")
        targets == calculate_targets(entry_price, rule.targets, md)
    IN  IF ~rule.enabled THEN NotTriggered(rule)
        ELSE IF gate = "raise" THEN Raised(rule)
        ELSE IF gate = "block" THEN NotTriggered(rule)
        ELSE IF matched = "raise" THEN Raised(rule)
        ELSE IF matched = "nomatch" THEN NotTriggered(rule)
        ELSE IF targets.exc THEN Raised(rule)
        ELSE [exc |-> FALSE, triggered |-> TRUE, rule_name |-> rule.name,
              confidence |-> calculate_confidence(rule.confidence, md),
              entry_price |-> entry_price,
              stop_loss |-> targets.stop_loss,
              target_price |-> targets.target_price,
              matched_conditions |-> rule.conditions]

\* sorted(active, key=priority, reverse=True): a stable insertion of r into a
\* list already sorted by priority descending, after every rule of the same
\* or a higher priority.
RECURSIVE InsertByPriority(_, _)
InsertByPriority(r, sorted) ==
    IF sorted = <<>> THEN <<r>>
    ELSE IF Head(sorted).priority >= r.priority
         THEN <<Head(sorted)>> \o InsertByPriority(r, Tail(sorted))
    ELSE <<r>> \o sorted

RECURSIVE SortByPriority(_)
SortByPriority(rs) ==
    IF rs = <<>> THEN <<>>
    ELSE InsertByPriority(rs[Len(rs)], SortByPriority(SubSeq(rs, 1, Len(rs) - 1)))

\* get_active_rules without its sort: the enabled rules in list order
get_active_rules_unsorted(rs) == SelectSeq(rs, LAMBDA r : r.enabled)

\* RuleEngine.get_active_rules
get_active_rules(rs) == SortByPriority(SelectSeq(rs, LAMBDA r : r.enabled))

\* RuleEngine.evaluate_all_rules: the triggered results in get_active_rules
\* order; an exception of evaluate_rule ends the call.
RECURSIVE EvaluateEach(_, _)
EvaluateEach(active, md) ==
    IF active = <<>> THEN [exc |-> FALSE, results |-> <<>>]
    ELSE LET result == evaluate_rule(Head(active), md)
             rest == EvaluateEach(Tail(active), md)
         IN  IF result.exc THEN [exc |-> TRUE, results |-> <<>>]
             ELSE IF rest.exc THEN rest
             ELSE IF result.triggered
                  THEN [exc |-> FALSE, results |-> <<result>> \o rest.results]
             ELSE rest

evaluate_all_rules(rs, md) == EvaluateEach(get_active_rules(rs), md)

(***************************************************************************)
(* SpecEngine: a RuleEngine loaded by add_rule in any order, and           *)
(* evaluate_all_rules called on it with any snapshot of Snapshots.         *)
(***************************************************************************)

\* the longest rule list the engine is loaded with
MaxRules == 3

\* The rules add_rule draws from.  "zeta" and "alpha" share a priority;
\* "min_volume" carries a volume filter, "targets" percent targets.
RulePool ==
    { RuleDefinition("breakout", TRUE, 10,
                     <<Condition("price", ">", Num(100))>>,
                     NoFilters, Targets(-3, 0, 0, 2),
                     Confidence(60, <<Modifier(<<Str("volume"), Str(">"), NumStr("500", 500)>>, 10),
                                      Modifier(<<Str("volume_ratio"), Str(">")>>, 50)>>)),
      RuleDefinition("zeta", TRUE, 5,
                     <<Condition("price", ">", Str("day_high"))>>,
                     NoFilters, NoTargets, NoConfidence),
      RuleDefinition("alpha", TRUE, 5,
                     <<Condition("price", ">=", NumStr("100", 100))>>,
                     NoFilters, NoTargets, NoConfidence),
      RuleDefinition("min_volume", TRUE, 1,
                     <<Condition("price", ">", Num(100))>>,
                     Filters(NoneV, NoneV, Num(500000)), NoTargets, NoConfidence),
      RuleDefinition("targets", TRUE, 7,
                     <<Condition("volume", ">", Num(1000))>>,
                     NoFilters, Targets(0, 2, 5, 0), NoConfidence),
      RuleDefinition("disabled", FALSE, 20,
                     <<Condition("price", ">", Num(0))>>,
                     NoFilters, NoTargets, NoConfidence) }

\* The snapshots evaluate_all_rules is called with: a trade tick, a quote
\* tick (its volume is None), a tick with no volume key, one whose price is
\* None, and one whose atr is a non-numeric string.
Snapshots ==
    { [price |-> Num(150), volume |-> Num(1000000), day_high |-> Num(140)],
      [price |-> Num(150), volume |-> NoneV, day_high |-> Num(160)],
      [price |-> Num(150)],
      [price |-> NoneV, volume |-> Num(1000000)],
      [price |-> Num(90), volume |-> Num(2000), atr |-> Str("n/a")] }

RuleNames(rs) == {rs[i].name : i \in 1..Len(rs)}

NotCalled == [called |-> FALSE, rules |-> <<>>, exc |-> FALSE, results |-> <<>>]

NoProbe == [fn |-> ""]

InitEngine ==
    /\ rules = <<>>
    /\ market_data \in Snapshots
    /\ evalOut = NotCalled
    /\ probe = NoProbe

\* RuleEngine.add_rule
add_rule(rule) ==
    /\ Len(rules) < MaxRules
    /\ rule.name \notin RuleNames(rules)
    /\ rules' = Append(rules, rule)
    /\ evalOut' = NotCalled
    /\ UNCHANGED <<market_data, probe>>
    /\ EngineOnly

\* a new tick's snapshot arrives
NewSnapshot(md) ==
    /\ md # market_data
    /\ market_data' = md
    /\ evalOut' = NotCalled
    /\ UNCHANGED <<rules, probe>>
    /\ EngineOnly

\* a call of evaluate_all_rules(market_data)
EvaluateAll ==
    /\ ~evalOut.called
    /\ LET out == evaluate_all_rules(rules, market_data)
       IN  evalOut' = [called |-> TRUE, rules |-> rules,
                       exc |-> out.exc, results |-> out.results]
    /\ UNCHANGED <<rules, market_data, probe>>
    /\ EngineOnly

NextEngine ==
    \/ \E rule \in RulePool : add_rule(rule)
    \/ \E md \in Snapshots : NewSnapshot(md)
    \/ EvaluateAll

Range(seq) == {seq[i] : i \in 1..Len(seq)}

(***************************************************************************)
(* SpecProbe: evaluate_condition, evaluate_rule, calculate_targets and     *)
(* calculate_confidence each called on its own, with conditions, rules,    *)
(* targets and confidence settings as a rule's YAML can hold them and      *)
(* snapshots as the feed gives them.  probe keeps the call: the function,  *)
(* its arguments, whether it raised, and what it returned, until the caller *)
(* is done with it.                                                        *)
(***************************************************************************)

\* the longest modifier list of a probed confidence setting
MaxModifiers == 2

\* Snapshots, and ticks that carry an atr: a number, and 0
ProbeSnapshots ==
    Snapshots \cup
    { [price |-> Num(150), volume |-> Num(1000000), atr |-> Num(2)],
      [price |-> Num(150), volume |-> Num(1000000), atr |-> Num(0)] }

\* Conditions on a field that is a number, None, absent or a string in some
\* snapshot, against a number, a numeric and a non-numeric string, the name
\* of a snapshot field (day_high, volume), None and an int beyond float.
ProbeConditions ==
    { Condition(f, op, v) :
          f \in {"price", "volume", "atr"},
          op \in {">", "<=", "=="},
          v \in {Num(150), NumStr("100", 100), Str("day_high"), Str("volume"),
                 Str("n/a"), NoneV, Big} }

ProbeConditionLists ==
    { <<>>,
      <<Condition("price", ">", Num(100))>>,
      <<Condition("volume", ">", Num(1000))>>,
      <<Condition("price", ">", Num(100)), Condition("volume", ">", Num(1000))>>,
      <<Condition("volume", ">", Num(1000)), Condition("price", ">", Str("day_high"))>>,
      <<Condition("price", "<", Num(100)), Condition("volume", ">", Big)>>,
      <<Condition("volume", ">", Big), Condition("price", "<", Num(100))>> }

\* no filters, no bound set, and one bound set each; a max_price of 0
ProbeFilters ==
    { NoFilters,
      Filters(NoneV, NoneV, NoneV),
      Filters(Num(100), NoneV, NoneV),
      Filters(NoneV, Num(120), NoneV),
      Filters(NoneV, Num(0), NoneV),
      Filters(NoneV, NoneV, Num(500000)) }

\* no targets; a ratio alone; a ratio with a percent stop-loss, with an ATR
\* stop-loss, with a percent target, and with a stop-loss of -100 percent
ProbeTargets ==
    { NoTargets,
      Targets(0, 0, 0, 2),
      Targets(-3, 0, 0, 2),
      Targets(0, 2, 0, 2),
      Targets(0, 2, 5, 2),
      Targets(-3, 0, 0, 0),
      Targets(-100, 0, 0, 2) }

\* modifiers: true or false in a snapshot, with two tokens, with a literal
\* or an operator that does not parse, on a field no snapshot has
ProbeModifiers ==
    { Modifier(<<Str("volume"), Str(">"), NumStr("500", 500)>>, 30),
      Modifier(<<Str("price"), Str("<"), NumStr("1000", 1000)>>, 30),
      Modifier(<<Str("price"), Str(">"), NumStr("0", 0)>>, -90),
      Modifier(<<Str("volume_ratio"), Str(">")>>, 50),
      Modifier(<<Str("volume"), Str(">"), Str("high")>>, 50),
      Modifier(<<Str("volume"), Str("=>"), NumStr("500", 500)>>, 50),
      Modifier(<<Str("sma_20"), Str(">"), NumStr("0", 0)>>, 20) }

ProbeModifierLists ==
    UNION {[1..n -> ProbeModifiers] : n \in 0..MaxModifiers}

\* base_score is validated to lie in [0, 1]
ProbeConfidences ==
    {NoConfidence} \cup
    {Confidence(base, mods) : base \in {0, 60, 100}, mods \in ProbeModifierLists}

ProbeRules ==
    { RuleDefinition("probe", enabled, 0, conditions, filters, targets, NoConfidence) :
          enabled \in BOOLEAN, conditions \in ProbeConditionLists,
          filters \in ProbeFilters, targets \in ProbeTargets }

\* a call of evaluate_condition(condition, market_data)
CallEvaluateCondition(condition, md) ==
    /\ probe = NoProbe
    /\ probe' = [fn |-> "evaluate_condition", condition |-> condition, md |-> md,
                 raised |-> evaluate_condition_raises(condition, md),
                 out |-> evaluate_condition(condition, md)]
    /\ UNCHANGED <<rules, market_data, evalOut>>
    /\ EngineOnly

\* a call of evaluate_rule(rule, market_data)
CallEvaluateRule(rule, md) ==
    /\ probe = NoProbe
    /\ probe' = [fn |-> "evaluate_rule", rule |-> rule, md |-> md,
                 raised |-> evaluate_rule(rule, md).exc,
                 out |-> evaluate_rule(rule, md)]
    /\ UNCHANGED <<rules, market_data, evalOut>>
    /\ EngineOnly

\* a call of calculate_targets(entry_price, targets, market_data)
CallCalculateTargets(entry_price, targets, md) ==
    /\ probe = NoProbe
    /\ probe' = [fn |-> "calculate_targets", entry_price |-> entry_price,
                 targets |-> targets, md |-> md,
                 raised |-> calculate_targets(entry_price, targets, md).exc,
                 out |-> calculate_targets(entry_price, targets, md)]
    /\ UNCHANGED <<rules, market_data, evalOut>>
    /\ EngineOnly

\* a call of calculate_confidence(confidence_config, market_data)
CallCalculateConfidence(confidence_config, md) ==
    /\ probe = NoProbe
    /\ probe' = [fn |-> "calculate_confidence", confidence |-> confidence_config,
                 md |-> md, raised |-> FALSE,
                 out |-> calculate_confidence(confidence_config, md)]
    /\ UNCHANGED <<rules, market_data, evalOut>>
    /\ EngineOnly

\* the caller is done with what the call returned
ProbeReturns ==
    /\ probe # NoProbe
    /\ probe' = NoProbe
    /\ UNCHANGED <<rules, market_data, evalOut>>
    /\ EngineOnly

NextProbe ==
    \/ ProbeReturns
    \/ \E condition \in ProbeConditions, md \in ProbeSnapshots :
           CallEvaluateCondition(condition, md)
    \/ \E rule \in ProbeRules, md \in ProbeSnapshots : CallEvaluateRule(rule, md)
    \/ \E entry_price \in {Num(150), Num(0)}, targets \in ProbeTargets,
           md \in ProbeSnapshots :
           CallCalculateTargets(entry_price, targets, md)
    \/ \E confidence_config \in ProbeConfidences, md \in ProbeSnapshots :
           CallCalculateConfidence(confidence_config, md)

(***************************************************************************)
(* AlertGenerator and its rules cache.                                     *)
(*                                                                         *)
(* The generator's coroutines run as asyncio tasks on one event loop: the  *)
(* code between two awaits that can suspend runs atomically.  A task is at *)
(* one of these places (pc):                                               *)
(*   "waitlock"   in `async with self._lock`, the lock being held          *)
(*   "loading"    in `await session.execute(query)` of the refresh         *)
(*   "closing"    leaving `async with async_session_maker()` of the        *)
(*                refresh, the rows read                                   *)
(*   "flush"      in `await session.flush()` of _create_alert              *)
(*   "broadcast"  in `await manager.broadcast_to_channel(...)`             *)
(*   "commit"     in `await session.commit()`                              *)
(* stop() holds no await and is one step.                                  *)
(***************************************************************************)

\* the number of coroutines in flight at once
NumTasks == 2

\* on_market_data calls, of those that find the generator running, in one
\* behaviour in which the feed delivers them one after the other
MaxTicks == 2

\* the same, in a behaviour in which every operation may overlap every other
GenTicks == 1

\* direct calls of refresh_rules_cache in one behaviour
MaxCalls == 3

\* the same, over a store with rows whose config gives no RuleDefinition
LoadCalls == 2

\* the clock stops here
MaxClock == 60

\* the clock's granularity, in seconds
ClockStep == 60

\* AlertGenerator._cache_ttl
cache_ttl == 60

NoTime == -1

TaskIds == 1..NumTasks

\* the rows of `rules` there can be, by primary key
RuleIds == {1, 2}

\* rows whose config_yaml gives no RuleDefinition
BrokenIds == {3, 4}

\* the same, with the rows that give no RuleDefinition
StoredIds == RuleIds \cup BrokenIds

\* An alert row is identified by the tick that made it and its place among
\* the tick's results (the store's primary key, one per flushed row).
AlertIds == (1..MaxTicks) \X (1..Cardinality(RuleIds))

\* Row 1 and row 2 share a priority; row 2 filters on volume.  The config_yaml
\* of row 3 does not load (no YAML, or an operator that is none of the six:
\* valid is FALSE); that of row 4 is a YAML object with `conditions: []`.
DbRule(id) ==
    CASE id = 1 ->
         [id |-> 1, name |-> "zeta", priority |-> 5, is_active |-> TRUE,
          config |-> [valid |-> TRUE,
                      conditions |-> <<Condition("price", ">", Num(100))>>,
                      filters |-> NoFilters, targets |-> Targets(-3, 0, 0, 2),
                      confidence |-> NoConfidence]]
      [] id = 2 ->
         [id |-> 2, name |-> "alpha", priority |-> 5, is_active |-> TRUE,
          config |-> [valid |-> TRUE,
                      conditions |-> <<Condition("price", ">", Num(100))>>,
                      filters |-> Filters(NoneV, NoneV, Num(500)), targets |-> NoTargets,
                      confidence |-> NoConfidence]]
      [] id = 3 ->
         [id |-> 3, name |-> "garbled", priority |-> 9, is_active |-> TRUE,
          config |-> [valid |-> FALSE,
                      conditions |-> <<Condition("price", ">", Num(100))>>,
                      filters |-> NoFilters, targets |-> NoTargets,
                      confidence |-> NoConfidence]]
      [] id = 4 ->
         [id |-> 4, name |-> "bare", priority |-> 9, is_active |-> TRUE,
          config |-> [valid |-> TRUE, conditions |-> <<>>,
                      filters |-> Filters(NoneV, NoneV, Num(500)), targets |-> NoTargets,
                      confidence |-> NoConfidence]]

\* _parse_rule_to_definition without its `if not conditions` test
parse_rule_to_definition_any_conditions(db_rule) ==
    IF ~db_rule.config.valid
    THEN [ok |-> FALSE,
          def |-> RuleDefinition(db_rule.name, FALSE, 0, <<>>, NoFilters, NoTargets,
                                 NoConfidence)]
    ELSE [ok |-> TRUE,
          def |-> RuleDefinition(db_rule.name, db_rule.is_active, db_rule.priority,
                                 db_rule.config.conditions, db_rule.config.filters,
                                 db_rule.config.targets, db_rule.config.confidence)]

\* AlertGenerator._parse_rule_to_definition: None (ok = FALSE) for a config
\* that does not load or holds no conditions
parse_rule_to_definition(db_rule) ==
    IF ~db_rule.config.valid \/ db_rule.config.conditions = <<>>
    THEN [ok |-> FALSE,
          def |-> RuleDefinition(db_rule.name, FALSE, 0, <<>>, NoFilters, NoTargets,
                                 NoConfidence)]
    ELSE [ok |-> TRUE,
          def |-> RuleDefinition(db_rule.name, db_rule.is_active, db_rule.priority,
                                 db_rule.config.conditions, db_rule.config.filters,
                                 db_rule.config.targets, db_rule.config.confidence)]

\* the RuleDefinition list of an engine whose rules came from these rows
EngineDefs(ids) == [i \in 1..Len(ids) |-> parse_rule_to_definition(DbRule(ids[i])).def]

\* The MarketData objects on_market_data is called with: a trade, a quote (no
\* volume), and an object that is no MarketData (the enrichment raises on it).
TickKinds == {"trade", "quote", "malformed"}

\* MarketData.model_dump(mode="json") with data["symbol"] set: every field of
\* the schema is a key; the stream's trades and quotes leave most of them None.
Dumped(price, volume, prev_close, day_open) ==
    [symbol |-> Str("AAPL"), price |-> price, bid |-> NoneV, ask |-> NoneV,
     bid_size |-> NoneV, ask_size |-> NoneV, volume |-> volume,
     timestamp |-> Str("2024-01-01T00:00:00"), change |-> NoneV,
     change_percent |-> NoneV, day_high |-> NoneV, day_low |-> NoneV,
     day_open |-> day_open, prev_close |-> prev_close, pre_market_price |-> NoneV,
     after_hours_price |-> NoneV, vwap |-> NoneV]

MarketData(kind) ==
    IF kind = "trade" THEN Dumped(Num(150), Num(1000), Num(100), Num(110))
    ELSE Dumped(Num(150), NoneV, NoneV, NoneV)

\* AlertGenerator._enrich_market_data: the dumped fields, the derived
\* percentages when their sources are set, None for the external fields
enrich_market_data(market) ==
    LET derived1 ==
            IF Truthy(market.prev_close) /\ Truthy(market.price)
            THEN [price_change_percent |->
                      Num(((market.price.n - market.prev_close.n) * 100) \div market.prev_close.n)]
            ELSE <<>>
        derived2 ==
            IF Truthy(market.day_open) /\ Truthy(market.prev_close)
            THEN [gap_percent |->
                      Num(((market.day_open.n - market.prev_close.n) * 100) \div market.prev_close.n)]
            ELSE <<>>
        defaults ==
            [volume_ratio |-> NoneV, resistance_level |-> NoneV, sma_20 |-> NoneV,
             pre_market_high |-> NoneV, float_shares |-> NoneV, short_interest |-> NoneV,
             atr |-> NoneV, pre_market_volume |-> NoneV]
    IN  market @@ derived1 @@ derived2 @@ defaults

\* the `for rid, (db_rule, rule_def) in self._rules_cache.items()` lookup of
\* _evaluate_and_generate: the id cached under that name, 0 for None
LookupRuleId(cache, rule_name) ==
    IF \E rid \in cache : DbRule(rid).name = rule_name
    THEN CHOOSE rid \in cache : DbRule(rid).name = rule_name
    ELSE 0

\* on_market_data without its own try/except: only the inner handlers are left
CaughtBy_inner_only(place) ==
    CASE place = "load" -> "refresh_rules_cache"
      [] place = "create_alert" -> "per_result"
      [] place = "broadcast" -> "_broadcast_alert"
      [] OTHER -> "caller"

\* Where an exception raised at a place of on_market_data is handled: by the
\* try of refresh_rules_cache, of the per-result loop, of _broadcast_alert, of
\* on_market_data itself; "caller" if it leaves on_market_data.
CaughtBy(place) ==
    CASE place = "load" -> "refresh_rules_cache"
      [] place = "create_alert" -> "per_result"
      [] place = "broadcast" -> "_broadcast_alert"
      [] place \in {"enrich", "evaluate", "commit"} -> "on_market_data"

IdleTask ==
    [op |-> "none", pc |-> "idle", force |-> FALSE, now |-> 0, loaded |-> <<>>,
     kind |-> "", evalRules |-> <<>>, results |-> <<>>, idx |-> 0, rule_id |-> 0,
     sessActive |-> FALSE, pending |-> {}, failed |-> {}, commit |-> "",
     tick |-> 0, handled |-> FALSE, ended |-> "", call |-> 0, load |-> ""]

NewTask(op) == [IdleTask EXCEPT !.op = op]

\* the coroutine ends: normally, after an exception handled at `handler`, or
\* with the exception leaving it
Finish(task, handler) ==
    [IdleTask EXCEPT !.op = task.op, !.tick = task.tick, !.results = task.results,
                     !.failed = task.failed, !.commit = task.commit,
                     !.call = task.call, !.load = task.load, !.force = task.force,
                     !.now = task.now,
                     !.ended = CASE handler = "caller" -> "raised"
                                 [] handler # "" \/ task.handled -> "caught"
                                 [] OTHER -> "ok"]

\* the coroutine returned at once, having done nothing
NoOp(op) == [IdleTask EXCEPT !.op = op, !.ended = "noop"]

\* How an on_market_data call ended: how is "ok", "caught" (an exception was
\* handled inside it) or "raised" (one left it); results is the number of
\* rules the tick triggered, failed the places among them whose _create_alert
\* raised; commit is "ok", "failed" (the store failed it), "rolled_back" (the
\* session's transaction had been rolled back) or "" (no commit was reached).
NoOutcome == [how |-> "", results |-> 0, failed |-> {}, commit |-> ""]

\* What is kept of a direct refresh_rules_cache call: now and force are its
\* `now` and its argument, last the refresh timestamp it found at its entry,
\* during the calls that were in flight at its entry; load is "none" (it
\* returned without opening a store session), "rows" (its query returned and
\* it swapped the cache in), "failed" (its query raised), "" while in flight.
CallEntry(task) ==
    [now |-> task.now, force |-> task.force, last |-> last_cache_refresh,
     during |-> {tasks[u].call : u \in TaskIds} \ {0},
     load |-> IF task.pc = "idle" THEN task.load ELSE ""]

\* The last invalidate_cache() call: st is "none" (there was none),
\* "pending" (it has returned and no store load has begun since) or
\* "reloaded" (a store load has begun since, in an operation `by`); waited
\* tells whether it had to wait for the lock.
NoInvalidation == [st |-> "none", waited |-> FALSE, by |-> ""]

\* task t goes on as `new`; if that is its end, the slot is free again
SetTask(t, new) ==
    /\ tasks' = [tasks EXCEPT ![t] = IF new.pc = "idle" THEN IdleTask ELSE new]
    /\ tickOutcome' = IF new.pc = "idle" /\ new.op = "tick" /\ new.tick > 0
                      THEN [tickOutcome EXCEPT ![new.tick] =
                                [how |-> new.ended, results |-> Len(new.results),
                                 failed |-> new.failed, commit |-> new.commit]]
                      ELSE tickOutcome
    /\ callLog' = IF new.call > Len(callLog) THEN Append(callLog, CallEntry(new))
                  ELSE IF new.call > 0 /\ new.pc = "idle"
                  THEN [callLog EXCEPT ![new.call].load = new.load]
                  ELSE callLog
    /\ invalidation' =
           IF new.op = "invalidate" /\ new.pc = "idle"
           THEN [st |-> "pending", waited |-> tasks[t].pc = "waitlock", by |-> ""]
           ELSE IF new.pc = "loading" /\ tasks[t].pc # "loading"
                   /\ invalidation.st = "pending"
           THEN [invalidation EXCEPT !.st = "reloaded", !.by = new.op]
           ELSE invalidation
    /\ returned_at_once' = IF new.ended = "noop" THEN new.op ELSE ""

\* next iteration of `for result in results`: the rule id of the next result
\* is looked up in the cache as it is now; after the last, session.commit()
NextResult(task, cache) ==
    IF task.idx < Len(task.results)
    THEN [task EXCEPT !.pc = "flush", !.idx = task.idx + 1,
                      !.rule_id = LookupRuleId(cache, task.results[task.idx + 1].rule_name)]
    ELSE [task EXCEPT !.pc = "commit"]

\* the engine row that a result's rule came from
SrcId(ids, rule_name) == CHOOSE rid \in Range(ids) : DbRule(rid).name = rule_name

\* on_market_data after its refresh_rules_cache returned: enrich, evaluate
\* against the engine as it is now, open the session and start on the first
\* result
TickEvaluate(task, engine, cache) ==
    LET out == evaluate_all_rules(EngineDefs(engine), enrich_market_data(MarketData(task.kind)))
        results == [i \in 1..Len(out.results) |->
                        [rule_name |-> out.results[i].rule_name,
                         src_id |-> SrcId(engine, out.results[i].rule_name)]]
    IN  IF task.kind = "malformed" THEN Finish(task, CaughtBy("enrich"))
        ELSE IF out.exc THEN Finish(task, CaughtBy("evaluate"))
        ELSE IF out.results = <<>> THEN Finish(task, "")
        ELSE NextResult([task EXCEPT !.evalRules = engine, !.results = results,
                                     !.idx = 0, !.sessActive = TRUE, !.pending = {}],
                        cache)

\* What follows the return of refresh_rules_cache in the calling coroutine;
\* load tells how the refresh went ("none", "rows" or "failed").
AfterRefresh(task, load, engine, cache) ==
    IF task.op \in {"start", "refresh"} THEN Finish([task EXCEPT !.load = load], "")
    ELSE TickEvaluate(task, engine, cache)

\* the TTL test without its `not force`
Fresh_unforced(force, now) ==
    /\ last_cache_refresh # NoTime
    /\ now - last_cache_refresh < cache_ttl

\* the TTL test of refresh_rules_cache with the `now` taken at its entry
Fresh(force, now) ==
    /\ ~force
    /\ last_cache_refresh # NoTime
    /\ now - last_cache_refresh < cache_ttl

\* asyncio.Lock.acquire returns at once only if the lock is free and nobody waits
LockFree == lock = 0 /\ waiters = <<>>

\* Entry of refresh_rules_cache(force) in task t, up to its first suspension.
EnterRefresh(t, task, force) ==
    LET tk == [task EXCEPT !.force = force, !.now = clock]
    IN  IF Fresh(force, clock)
        THEN /\ SetTask(t, AfterRefresh(tk, "none", rule_engine, rules_cache))
             /\ UNCHANGED <<lock, waiters>>
        ELSE IF LockFree
        THEN /\ lock' = t
             /\ SetTask(t, [tk EXCEPT !.pc = "loading"])
             /\ UNCHANGED waiters
        ELSE /\ waiters' = Append(waiters, t)
             /\ SetTask(t, [tk EXCEPT !.pc = "waitlock"])
             /\ UNCHANGED lock

\* the generator as constructed, over a store whose active rows are some of ids
InitGenOver(ids) ==
    /\ dbRules \in SUBSET ids
    /\ running = FALSE
    /\ rules_cache = {}
    /\ rule_engine = <<>>
    /\ last_cache_refresh = NoTime
    /\ lock = 0
    /\ waiters = <<>>
    /\ clock = 0
    /\ tasks = [t \in TaskIds |-> IdleTask]
    /\ alertsDb = {}
    /\ hubCalls = [a \in AlertIds |-> 0]
    /\ ticksStarted = 0
    /\ tickOutcome = [n \in 1..MaxTicks |-> NoOutcome]
    /\ stopped = FALSE
    /\ callLog = <<>>
    /\ invalidation = NoInvalidation
    /\ returned_at_once = ""

InitGen == InitGenOver(RuleIds)

\* the orders in which a query without ORDER BY may return a set of rows
RowOrders(S) == {f \in [1..Cardinality(S) -> S] : Range(f) = S}

\* a new coroutine takes the first free task slot
FreeSlot(t) ==
    /\ tasks[t].pc = "idle"
    /\ \A u \in TaskIds : u < t => tasks[u].pc # "idle"

on_market_data_whether_running_or_not(t, kind) ==
    /\ FreeSlot(t)
    /\ ticksStarted < MaxTicks
    /\ ticksStarted' = ticksStarted + 1
    /\ EnterRefresh(t, [NewTask("tick") EXCEPT !.kind = kind,
                                               !.tick = ticksStarted + 1], FALSE)
    /\ UNCHANGED <<dbRules, running, rules_cache, rule_engine, last_cache_refresh,
                   clock, alertsDb, hubCalls, stopped>>
    /\ GenOnly

\* AlertGenerator.on_market_data(symbol, market_data), up to its first
\* suspension: what it does to the generator
OnMarketData(t, kind) ==
    /\ FreeSlot(t)
    /\ IF ~running
       THEN /\ SetTask(t, NoOp("tick"))
            /\ UNCHANGED <<lock, waiters, ticksStarted>>
       ELSE /\ ticksStarted' = ticksStarted + 1
            /\ EnterRefresh(t, [NewTask("tick") EXCEPT !.kind = kind,
                                                       !.tick = ticksStarted + 1], FALSE)
    /\ UNCHANGED <<dbRules, running, rules_cache, rule_engine, last_cache_refresh,
                   clock, alertsDb, hubCalls, stopped>>

\* AlertGenerator.on_market_data(symbol, market_data), up to its first suspension
on_market_data(t, kind) ==
    /\ OnMarketData(t, kind)
    /\ GenOnly

\* a direct call of AlertGenerator.refresh_rules_cache(force), as the test
\* endpoint of the market-data API makes it, up to its first suspension
refresh_rules_cache(t, force) ==
    /\ FreeSlot(t)
    /\ Len(callLog) < MaxCalls
    /\ EnterRefresh(t, [NewTask("refresh") EXCEPT !.call = Len(callLog) + 1], force)
    /\ UNCHANGED <<dbRules, running, rules_cache, rule_engine, last_cache_refresh,
                   clock, alertsDb, hubCalls, ticksStarted, stopped>>
    /\ GenOnly

start_without_running_check(t) ==
    /\ FreeSlot(t)
    /\ stopped' = FALSE
    /\ running' = TRUE
    /\ EnterRefresh(t, NewTask("start"), TRUE)
    /\ UNCHANGED <<dbRules, rules_cache, rule_engine, last_cache_refresh, clock,
                   alertsDb, hubCalls, ticksStarted>>
    /\ GenOnly

\* AlertGenerator.start(), up to its first suspension
start(t) ==
    /\ FreeSlot(t)
    /\ stopped' = FALSE
    /\ IF running
       THEN /\ SetTask(t, NoOp("start"))
            /\ UNCHANGED <<running, lock, waiters>>
       ELSE /\ running' = TRUE
            /\ EnterRefresh(t, NewTask("start"), TRUE)
    /\ UNCHANGED <<dbRules, rules_cache, rule_engine, last_cache_refresh, clock,
                   alertsDb, hubCalls, ticksStarted>>
    /\ GenOnly

stop_keeping_the_cache ==
    /\ running' = FALSE
    /\ stopped' = TRUE
    /\ UNCHANGED <<dbRules, rules_cache, last_cache_refresh, rule_engine, lock, waiters,
                   clock, tasks, alertsDb, hubCalls, ticksStarted, tickOutcome,
                   callLog, invalidation>>
    /\ returned_at_once' = ""
    /\ GenOnly

\* AlertGenerator.stop(): no await, one step
stop ==
    /\ running' = FALSE
    /\ rules_cache' = {}
    /\ last_cache_refresh' = NoTime
    /\ stopped' = TRUE
    /\ UNCHANGED <<dbRules, rule_engine, lock, waiters, clock, tasks, alertsDb,
                   hubCalls, ticksStarted, tickOutcome, callLog, invalidation>>
    /\ returned_at_once' = ""
    /\ GenOnly

\* invalidate_cache without `async with self._lock`
invalidate_cache_unlocked(t) ==
    /\ FreeSlot(t)
    /\ last_cache_refresh' = NoTime
    /\ SetTask(t, Finish(NewTask("invalidate"), ""))
    /\ UNCHANGED <<dbRules, running, rules_cache, rule_engine, lock, waiters, clock,
                   alertsDb, hubCalls, ticksStarted, stopped>>
    /\ GenOnly

\* AlertGenerator.invalidate_cache(), up to its first suspension
invalidate_cache(t) ==
    /\ FreeSlot(t)
    /\ IF LockFree
       THEN /\ last_cache_refresh' = NoTime
            /\ SetTask(t, Finish(NewTask("invalidate"), ""))
            /\ UNCHANGED waiters
       ELSE /\ waiters' = Append(waiters, t)
            /\ SetTask(t, [NewTask("invalidate") EXCEPT !.pc = "waitlock"])
            /\ UNCHANGED last_cache_refresh
    /\ UNCHANGED <<dbRules, running, rules_cache, rule_engine, lock, clock, alertsDb,
                   hubCalls, ticksStarted, stopped>>
    /\ GenOnly

\* `async with self._lock` resumes in the first waiter: invalidate_cache clears
\* the timestamp and releases; refresh_rules_cache re-checks the TTL with the
\* `now` of its entry and either returns or starts the load.
LockGranted(t) ==
    /\ tasks[t].pc = "waitlock"
    /\ lock = 0
    /\ waiters # <<>>
    /\ Head(waiters) = t
    /\ waiters' = Tail(waiters)
    /\ IF tasks[t].op = "invalidate"
       THEN /\ last_cache_refresh' = NoTime
            /\ SetTask(t, Finish(tasks[t], ""))
            /\ UNCHANGED lock
       ELSE IF Fresh(tasks[t].force, tasks[t].now)
       THEN /\ SetTask(t, AfterRefresh(tasks[t], "none", rule_engine, rules_cache))
            /\ UNCHANGED <<lock, last_cache_refresh>>
       ELSE /\ lock' = t
            /\ SetTask(t, [tasks[t] EXCEPT !.pc = "loading"])
            /\ UNCHANGED last_cache_refresh
    /\ UNCHANGED <<dbRules, running, rules_cache, rule_engine, clock, alertsDb,
                   hubCalls, ticksStarted, stopped>>
    /\ GenOnly

\* `await session.execute(query)` of refresh_rules_cache returns the active
\* rows, in some order
LoadRows(t) ==
    /\ tasks[t].pc = "loading"
    /\ \E rows \in RowOrders(dbRules) :
           SetTask(t, [tasks[t] EXCEPT !.pc = "closing", !.loaded = rows])
    /\ UNCHANGED <<dbRules, running, rules_cache, rule_engine, last_cache_refresh,
                   lock, waiters, clock, alertsDb, hubCalls, ticksStarted, stopped>>
    /\ GenOnly

\* a failed load that also drops the refresh timestamp
LoadFails_clearing_timestamp(t) ==
    /\ tasks[t].pc = "loading"
    /\ lock' = 0
    /\ last_cache_refresh' = NoTime
    /\ SetTask(t, AfterRefresh([tasks[t] EXCEPT !.handled = TRUE], "failed",
                               rule_engine, rules_cache))
    /\ UNCHANGED <<dbRules, running, rules_cache, rule_engine, waiters, clock,
                   alertsDb, hubCalls, ticksStarted, stopped>>
    /\ GenOnly

\* `await session.execute(query)` of refresh_rules_cache raises: the lock is
\* released; refresh_rules_cache logs and returns
LoadFails(t) ==
    /\ tasks[t].pc = "loading"
    /\ lock' = 0
    /\ LET handler == CaughtBy("load")
           task == [tasks[t] EXCEPT !.handled = TRUE]
       IN  SetTask(t, IF handler = "refresh_rules_cache"
                      THEN AfterRefresh(task, "failed", rule_engine, rules_cache)
                      ELSE IF task.op = "start" THEN Finish(task, "caller")
                      ELSE Finish(task, handler))
    /\ UNCHANGED <<dbRules, running, rules_cache, rule_engine, last_cache_refresh,
                   waiters, clock, alertsDb, hubCalls, ticksStarted, stopped>>
    /\ GenOnly

\* a swap that installs the new cache and timestamp and keeps the old engine
SwapCache_keeping_the_engine(t) ==
    /\ tasks[t].pc = "closing"
    /\ LET rows == tasks[t].loaded
           parsed(id) == parse_rule_to_definition(DbRule(id)).ok
           new_cache == {rows[i] : i \in {j \in 1..Len(rows) : parsed(rows[j])}}
       IN  /\ rules_cache' = new_cache
           /\ last_cache_refresh' = tasks[t].now
           /\ SetTask(t, AfterRefresh(tasks[t], "rows", rule_engine, new_cache))
    /\ lock' = 0
    /\ UNCHANGED <<dbRules, running, rule_engine, waiters, clock, alertsDb, hubCalls,
                   ticksStarted, stopped>>
    /\ GenOnly

\* refresh_rules_cache after the session closed: parse the rows, build the new
\* cache and engine, swap them in with the timestamp, release the lock and
\* return to the caller, which runs on to its next suspension
SwapCache(t) ==
    /\ tasks[t].pc = "closing"
    /\ LET rows == tasks[t].loaded
           parsed(id) == parse_rule_to_definition(DbRule(id)).ok
           new_cache == {rows[i] : i \in {j \in 1..Len(rows) : parsed(rows[j])}}
           new_engine == SelectSeq(rows, parsed)
       IN  /\ rules_cache' = new_cache
           /\ rule_engine' = new_engine
           /\ last_cache_refresh' = tasks[t].now
           /\ SetTask(t, AfterRefresh(tasks[t], "rows", new_engine, new_cache))
    /\ lock' = 0
    /\ UNCHANGED <<dbRules, running, waiters, clock, alertsDb, hubCalls,
                   ticksStarted, stopped>>
    /\ GenOnly

\* _create_alert: session.add, flush and refresh succeed: the row has its id;
\* the alert is appended to alerts_created and handed to the hub
FlushOk(t) ==
    /\ tasks[t].pc = "flush"
    /\ tasks[t].sessActive
    /\ LET task == tasks[t]
           alert == [id |-> <<task.tick, task.idx>>,
                     rule_name |-> task.results[task.idx].rule_name,
                     rule_id |-> task.rule_id,
                     src_id |-> task.results[task.idx].src_id]
       IN  /\ SetTask(t, [task EXCEPT !.pc = "broadcast",
                                      !.pending = task.pending \cup {alert}])
           /\ hubCalls' = [hubCalls EXCEPT ![alert.id] = @ + 1]
    /\ UNCHANGED <<dbRules, running, rules_cache, rule_engine, last_cache_refresh,
                   lock, waiters, clock, alertsDb, ticksStarted, stopped>>
    /\ GenOnly

\* _create_alert raises.  in_flush: session.flush() raised; SQLAlchemy has
\* rolled the session's transaction back, and until session.rollback() every
\* later flush and the commit raise too.  Otherwise it raised before the row
\* was added to the session.  The loop's handler logs and goes on to the next
\* result.
CreateAlertFails(t, in_flush) ==
    /\ tasks[t].pc = "flush"
    /\ in_flush \/ tasks[t].sessActive
    /\ LET handler == CaughtBy("create_alert")
           task0 == [tasks[t] EXCEPT !.failed = @ \cup {tasks[t].idx}, !.handled = TRUE]
           task == IF in_flush THEN [task0 EXCEPT !.sessActive = FALSE, !.pending = {}]
                   ELSE task0
       IN  SetTask(t, IF handler = "per_result" THEN NextResult(task, rules_cache)
                      ELSE Finish(task, handler))
    /\ UNCHANGED <<dbRules, running, rules_cache, rule_engine, last_cache_refresh,
                   lock, waiters, clock, alertsDb, hubCalls, ticksStarted, stopped>>
    /\ GenOnly

\* `await manager.broadcast_to_channel("alerts", ...)` returns, or raises and
\* _broadcast_alert logs it; the loop goes on to the next result
BroadcastReturns(t, ok) ==
    /\ tasks[t].pc = "broadcast"
    /\ LET handler == IF ok THEN "_broadcast_alert" ELSE CaughtBy("broadcast")
           task == [tasks[t] EXCEPT !.handled = @ \/ ~ok]
       IN  SetTask(t, IF handler \in {"_broadcast_alert", "per_result"}
                      THEN NextResult(task, rules_cache)
                      ELSE Finish(task, handler))
    /\ UNCHANGED <<dbRules, running, rules_cache, rule_engine, last_cache_refresh,
                   lock, waiters, clock, alertsDb, hubCalls, ticksStarted, stopped>>
    /\ GenOnly

\* `await session.commit()` succeeds: the flushed rows are committed
CommitOk(t) ==
    /\ tasks[t].pc = "commit"
    /\ tasks[t].sessActive
    /\ alertsDb' = alertsDb \cup tasks[t].pending
    /\ SetTask(t, Finish([tasks[t] EXCEPT !.commit = "ok"], ""))
    /\ UNCHANGED <<dbRules, running, rules_cache, rule_engine, last_cache_refresh,
                   lock, waiters, clock, hubCalls, ticksStarted, stopped>>
    /\ GenOnly

\* `await session.commit()` raises (the store fails, or the transaction was
\* rolled back by a failed flush): nothing of the batch is committed
CommitFails(t) ==
    /\ tasks[t].pc = "commit"
    /\ SetTask(t, Finish([tasks[t] EXCEPT !.handled = TRUE,
                                          !.commit = IF tasks[t].sessActive THEN "failed"
                                                     ELSE "rolled_back"],
                         CaughtBy("commit")))
    /\ UNCHANGED <<dbRules, running, rules_cache, rule_engine, last_cache_refresh,
                   lock, waiters, clock, alertsDb, hubCalls, ticksStarted, stopped>>
    /\ GenOnly

\* the rule-management layer activates or creates a rule
DbEnable(id) ==
    /\ id \notin dbRules
    /\ dbRules' = dbRules \cup {id}
    /\ UNCHANGED <<running, rules_cache, rule_engine, last_cache_refresh, lock,
                   waiters, clock, tasks, alertsDb, hubCalls, ticksStarted,
                   tickOutcome, stopped, callLog, invalidation>>
    /\ returned_at_once' = ""
    /\ GenOnly

\* the rule-management layer deactivates or deletes a rule
DbDisable(id) ==
    /\ id \in dbRules
    /\ dbRules' = dbRules \ {id}
    /\ UNCHANGED <<running, rules_cache, rule_engine, last_cache_refresh, lock,
                   waiters, clock, tasks, alertsDb, hubCalls, ticksStarted,
                   tickOutcome, stopped, callLog, invalidation>>
    /\ returned_at_once' = ""
    /\ GenOnly

\* time passes
ClockAdvance ==
    /\ clock + ClockStep <= MaxClock
    /\ clock' = clock + ClockStep
    /\ UNCHANGED <<dbRules, running, rules_cache, rule_engine, last_cache_refresh,
                   lock, waiters, tasks, alertsDb, hubCalls, ticksStarted,
                   tickOutcome, stopped, callLog, invalidation>>
    /\ returned_at_once' = ""
    /\ GenOnly

\* The generator as the application drives it (start, ticks, stop; nothing in
\* the application calls invalidate_cache), every operation overlapping every
\* other and the rule-management layer.
NextGen ==
    \/ \E t \in TaskIds, kind \in TickKinds :
           (running => ticksStarted < GenTicks) /\ on_market_data(t, kind)
    \/ \E t \in TaskIds : start(t)
    \/ stop
    \/ \E t \in TaskIds : LockGranted(t)
    \/ \E t \in TaskIds : LoadRows(t)
    \/ \E t \in TaskIds : LoadFails(t)
    \/ \E t \in TaskIds : SwapCache(t)
    \/ \E t \in TaskIds : FlushOk(t)
    \/ \E t \in TaskIds, in_flush \in BOOLEAN : CreateAlertFails(t, in_flush)
    \/ \E t \in TaskIds, ok \in BOOLEAN : BroadcastReturns(t, ok)
    \/ \E t \in TaskIds : CommitOk(t)
    \/ \E t \in TaskIds : CommitFails(t)
    \/ \E id \in RuleIds : DbEnable(id)
    \/ \E id \in RuleIds : DbDisable(id)
    \/ ClockAdvance

\* no coroutine of the generator is in flight
Quiet == \A t \in TaskIds : tasks[t].pc = "idle"

\* the application starts the generator and the feed delivers its ticks one
\* after the other (StreamManager awaits each callback); the rule set changes
\* between ticks
NextTicks ==
    \/ \E t \in TaskIds, kind \in TickKinds :
           Quiet /\ (running => ticksStarted < MaxTicks) /\ on_market_data(t, kind)
    \/ \E t \in TaskIds : Quiet /\ start(t)
    \/ \E t \in TaskIds : LoadRows(t)
    \/ \E t \in TaskIds : LoadFails(t)
    \/ \E t \in TaskIds : SwapCache(t)
    \/ \E t \in TaskIds : FlushOk(t)
    \/ \E t \in TaskIds, in_flush \in BOOLEAN : CreateAlertFails(t, in_flush)
    \/ \E t \in TaskIds, ok \in BOOLEAN : BroadcastReturns(t, ok)
    \/ \E t \in TaskIds : CommitOk(t)
    \/ \E t \in TaskIds : CommitFails(t)
    \/ \E id \in RuleIds : Quiet /\ DbEnable(id)
    \/ \E id \in RuleIds : Quiet /\ DbDisable(id)
    \/ ClockAdvance

\* The started generator with a caller of invalidate_cache: the ticks, the
\* invalidations and the refreshes overlap.
NextCache ==
    \/ \E t \in TaskIds, kind \in TickKinds :
           (running => ticksStarted < MaxTicks) /\ on_market_data(t, kind)
    \/ \E t \in TaskIds : start(t)
    \/ \E t \in TaskIds : invalidate_cache(t)
    \/ \E t \in TaskIds : LockGranted(t)
    \/ \E t \in TaskIds : LoadRows(t)
    \/ \E t \in TaskIds : LoadFails(t)
    \/ \E t \in TaskIds : SwapCache(t)
    \/ \E t \in TaskIds : FlushOk(t)
    \/ \E t \in TaskIds, in_flush \in BOOLEAN : CreateAlertFails(t, in_flush)
    \/ \E t \in TaskIds, ok \in BOOLEAN : BroadcastReturns(t, ok)
    \/ \E t \in TaskIds : CommitOk(t)
    \/ \E t \in TaskIds : CommitFails(t)
    \/ ClockAdvance

\* refresh_rules_cache called directly, the calls overlapping, while time
\* passes and the rule set changes
NextRefresh ==
    \/ \E t \in TaskIds, force \in BOOLEAN : refresh_rules_cache(t, force)
    \/ \E t \in TaskIds : LockGranted(t)
    \/ \E t \in TaskIds : LoadRows(t)
    \/ \E t \in TaskIds : LoadFails(t)
    \/ \E t \in TaskIds : SwapCache(t)
    \/ \E id \in RuleIds : DbEnable(id)
    \/ \E id \in RuleIds : DbDisable(id)
    \/ ClockAdvance

\* refresh_rules_cache called over a store that holds rows whose config gives
\* no RuleDefinition
NextLoad ==
    \/ \E t \in TaskIds, force \in BOOLEAN :
           Len(callLog) < LoadCalls /\ refresh_rules_cache(t, force)
    \/ \E t \in TaskIds : LockGranted(t)
    \/ \E t \in TaskIds : LoadRows(t)
    \/ \E t \in TaskIds : LoadFails(t)
    \/ \E t \in TaskIds : SwapCache(t)
    \/ ClockAdvance

(***************************************************************************)
(* ConnectionManager (the subscription hub) and the websocket endpoint.    *)
(*                                                                         *)
(* The endpoint's handlers and the broadcasts are asyncio tasks on one     *)
(* event loop.  A handler suspends in `await websocket.receive_text()` and *)
(* in the `await ...send_json(message)` of send_personal; a broadcast      *)
(* suspends in the `await ...send_json(message)` of its loop.              *)
(***************************************************************************)

\* the connections there can be
NumConns == 2

\* broadcasts in flight at once
NumBroadcasts == 1

\* Connection ids are uuid4 strings, never used twice.
Conns == 1..NumConns

BcIds == 1..NumBroadcasts

\* the keys of ConnectionManager.subscriptions
Channels == {"alerts", "market_data"}

\* str.upper() on the symbols used here
Upper(sym) == IF sym = "aapl" THEN "AAPL" ELSE sym

\* The client messages: json is FALSE for a text that is no JSON; action and
\* channel are "" where the message has no such key.
Msg(json, action, channel, symbols) ==
    [json |-> json, object |-> json, action |-> action, channel |-> channel,
     symbols |-> symbols]

\* a text that json.loads() accepts and that is no JSON object (a list, a
\* number, a string, null): it has no .get()
NotAnObject == [Msg(TRUE, "", "", <<>>) EXCEPT !.object = FALSE]

Messages ==
    { Msg(TRUE, "subscribe", "alerts", <<>>),
      Msg(TRUE, "subscribe", "market_data", <<"aapl">>),
      Msg(TRUE, "subscribe", "other", <<>>),
      Msg(TRUE, "subscribe", "", <<>>),
      Msg(TRUE, "unsubscribe", "market_data", <<>>),
      Msg(TRUE, "ping", "", <<>>),
      Msg(TRUE, "", "", <<>>),
      Msg(FALSE, "", "", <<>>),
      NotAnObject }

\* the subscribe and unsubscribe messages of a client
Requests ==
    { Msg(TRUE, "subscribe", "alerts", <<>>),
      Msg(TRUE, "subscribe", "market_data", <<"aapl">>),
      Msg(TRUE, "subscribe", "market_data", <<"MSFT", "aapl">>),
      Msg(TRUE, "unsubscribe", "alerts", <<>>),
      Msg(TRUE, "unsubscribe", "market_data", <<>>) }

\* what stream_manager.subscribe(new_symbols) can do: register the symbols,
\* return without registering (no credentials), or raise
UpstreamOutcomes == {"registered", "skipped", "raises"}

disconnect_emptying_its_sets(hub, connection_id) ==
    [active |-> hub.active \ {connection_id},
     subs |-> [ch \in DOMAIN hub.subs |->
                  IF connection_id \in hub.subs[ch] THEN {} ELSE hub.subs[ch]],
     syms |-> [sym \in DOMAIN hub.syms |->
                  IF connection_id \in hub.syms[sym] THEN {} ELSE hub.syms[sym]]]

\* the hub's three collections after ConnectionManager.disconnect(connection_id)
disconnect(hub, connection_id) ==
    [active |-> hub.active \ {connection_id},
     subs |-> [ch \in DOMAIN hub.subs |-> hub.subs[ch] \ {connection_id}],
     syms |-> [sym \in DOMAIN hub.syms |-> hub.syms[sym] \ {connection_id}]]

\* disconnect applied to each id of the `disconnected` list of a broadcast
RECURSIVE DisconnectAll(_, _)
DisconnectAll(hub, ids) ==
    IF ids = {} THEN hub
    ELSE LET id == CHOOSE x \in ids : TRUE
         IN  DisconnectAll(disconnect(hub, id), ids \ {id})

NewSymbols_all_requested(keys, symbols) ==
    {Upper(symbols[i]) : i \in 1..Len(symbols)}

\* the symbols of a subscribe request that are no key of symbol_subscriptions yet
RECURSIVE NewSymbols(_, _)
NewSymbols(keys, symbols) ==
    IF symbols = <<>> THEN {}
    ELSE LET symbol == Upper(Head(symbols))
         IN  (IF symbol \in keys THEN {} ELSE {symbol}) \cup NewSymbols(keys, Tail(symbols))

subscribe_without_channel(hub, connection_id, channel, symbols) ==
    LET wanted == {Upper(symbols[i]) : i \in 1..Len(symbols)}
        withSymbols == channel = "market_data" /\ symbols # <<>>
        syms1 == IF withSymbols
                 THEN [sym \in DOMAIN hub.syms \cup wanted |->
                          IF sym \in wanted
                          THEN (IF sym \in DOMAIN hub.syms THEN hub.syms[sym] ELSE {})
                                   \cup {connection_id}
                          ELSE hub.syms[sym]]
                 ELSE hub.syms
    IN  [hub |-> [active |-> hub.active, subs |-> hub.subs, syms |-> syms1],
         new_symbols |-> IF withSymbols THEN NewSymbols(DOMAIN hub.syms, symbols) ELSE {}]

\* ConnectionManager.subscribe(connection_id, channel, symbols): the hub's
\* collections after it, and the symbols handed to stream_manager.subscribe
subscribe(hub, connection_id, channel, symbols) ==
    LET subs1 == IF channel \in DOMAIN hub.subs
                 THEN [hub.subs EXCEPT ![channel] = @ \cup {connection_id}]
                 ELSE hub.subs
        wanted == {Upper(symbols[i]) : i \in 1..Len(symbols)}
        withSymbols == channel = "market_data" /\ symbols # <<>>
        syms1 == IF withSymbols
                 THEN [sym \in DOMAIN hub.syms \cup wanted |->
                          IF sym \in wanted
                          THEN (IF sym \in DOMAIN hub.syms THEN hub.syms[sym] ELSE {})
                                   \cup {connection_id}
                          ELSE hub.syms[sym]]
                 ELSE hub.syms
    IN  [hub |-> [active |-> hub.active, subs |-> subs1, syms |-> syms1],
         new_symbols |-> IF withSymbols THEN NewSymbols(DOMAIN hub.syms, symbols) ELSE {}]

unsubscribe_channel_only(hub, connection_id, channel) ==
    [active |-> hub.active,
     subs |-> IF channel \in DOMAIN hub.subs
              THEN [hub.subs EXCEPT ![channel] = @ \ {connection_id}]
              ELSE hub.subs,
     syms |-> hub.syms]

\* the hub's collections after ConnectionManager.unsubscribe(connection_id, channel)
unsubscribe(hub, connection_id, channel) ==
    [active |-> hub.active,
     subs |-> IF channel \in DOMAIN hub.subs
              THEN [hub.subs EXCEPT ![channel] = @ \ {connection_id}]
              ELSE hub.subs,
     syms |-> IF channel = "market_data"
              THEN [sym \in DOMAIN hub.syms |-> hub.syms[sym] \ {connection_id}]
              ELSE hub.syms]

get_subscriptions_of_anyone(hub, connection_id) ==
    {ch \in DOMAIN hub.subs : hub.subs[ch] # {}}

\* ConnectionManager.get_subscriptions(connection_id)
get_subscriptions(hub, connection_id) ==
    {ch \in DOMAIN hub.subs : connection_id \in hub.subs[ch]}

Hub == [active |-> active_connections, subs |-> subscriptions,
        syms |-> symbol_subscriptions]

\* the symbols whose subscriber set holds connection_id
SymbolsOf(hub, connection_id) ==
    {sym \in DOMAIN hub.syms : connection_id \in hub.syms[sym]}

\* What is kept of the subscribe or unsubscribe call that has just returned,
\* until the next step of the hub: its arguments (requested: the symbols
\* asked for, upper-cased), the symbols the connection held and the keys of
\* symbol_subscriptions before the call, and the list the call handed to
\* stream_manager.subscribe (handed, empty if it made no such call).
NoCall ==
    [op |-> "", connection_id |-> 0, channel |-> "", requested |-> {}, held |-> {},
     known |-> {}, handed |-> {}]

CallOf(op, hub, connection_id, channel, symbols, new_symbols) ==
    [op |-> op, connection_id |-> connection_id, channel |-> channel,
     requested |-> {Upper(symbols[i]) : i \in 1..Len(symbols)},
     held |-> SymbolsOf(hub, connection_id), known |-> DOMAIN hub.syms,
     handed |-> new_symbols]

\* What the endpoint replies to a message: "status", "pong" or the code of an
\* error; "raises" when the handling ends by an exception that is no
\* WebSocketDisconnect (message.get on what is no dict) and nothing is replied.
ReplyTo(msg) ==
    IF ~msg.json THEN "INVALID_JSON"
    ELSE IF ~msg.object THEN "raises"
    ELSE IF msg.action = "subscribe"
    THEN (IF msg.channel = "" THEN "MISSING_CHANNEL" ELSE "status")
    ELSE IF msg.action = "unsubscribe" THEN "status"
    ELSE IF msg.action = "ping" THEN "pong"
    ELSE "UNKNOWN_ACTION"

\* What is kept of the handling of the message that has just been received,
\* until the next step of the hub: the message, the reply handed to
\* send_personal, the "subscriptions" list of a status reply, and whether
\* send_personal sends it (the id is registered).
NoReply ==
    [connection_id |-> 0, msg |-> Msg(FALSE, "", "", <<>>), reply |-> "",
     subscriptions |-> {}, sends |-> FALSE]

ReplyOf(hub, connection_id, msg) ==
    [connection_id |-> connection_id, msg |-> msg, reply |-> ReplyTo(msg),
     subscriptions |-> IF ReplyTo(msg) = "status"
                       THEN get_subscriptions(hub, connection_id) ELSE {},
     sends |-> ReplyTo(msg) # "raises" /\ connection_id \in hub.active]

\* the set a broadcast iterates, as it is now
BcSet(hub, b) == IF b.kind = "channel" THEN hub.subs[b.key] ELSE hub.syms[b.key]

\* A broadcast slot: free ("idle"), or a broadcast suspended in the send to
\* `cur` ("send"), returning ("ok") or ending by an exception ("raised").  start is the set it
\* iterates as it was when the loop began, sent the ids whose send returned,
\* disconnected its `disconnected` list, stayed the ids that have been
\* registered and in the set ever since the loop began.
IdleBc ==
    [pc |-> "idle", kind |-> "", key |-> "", start |-> {}, cur |-> 0,
     disconnected |-> {}, sent |-> {}, stayed |-> {}]

\* the ids the loop of a broadcast has been through
Visited(b) == b.sent \cup b.disconnected \cup (IF b.pc = "send" THEN {b.cur} ELSE {})

\* The `for conn_id in <set>` of a broadcast resumes.  The set iterator raises
\* RuntimeError when the set's size differs from its size when the loop began;
\* otherwise it yields the remaining ids in some order, ids not in
\* active_connections being passed over, and an id added meanwhile may or may
\* not be yielded.  The results: the broadcast suspended in its next send, or
\* ended ("ok" when the loop is through, "raised").
IterNext(hub, b) ==
    LET S == BcSet(hub, b)
        rest == (S \ Visited(b)) \cap hub.active
        done == [b EXCEPT !.cur = 0]
    IN  IF Cardinality(S) # Cardinality(b.start) THEN {[done EXCEPT !.pc = "raised"]}
        ELSE {[b EXCEPT !.pc = "send", !.cur = c] : c \in rest}
             \cup (IF rest \subseteq (S \ b.start) THEN {[done EXCEPT !.pc = "ok"]} ELSE {})

\* the in-flight broadcasts keep track of the connections that have stayed
\* connected and subscribed since they began
Track(hub, bcs) ==
    [i \in BcIds |->
        IF bcs[i].pc # "send" THEN bcs[i]
        ELSE [bcs[i] EXCEPT !.stayed = @ \cap hub.active \cap BcSet(hub, bcs[i])]]

\* A broadcast that has ended is back in its caller before anything else
\* happens (the end of a coroutine is no suspension).
NoneEnded == \A i \in BcIds : bc[i].pc \in {"idle", "send"}

\* the hub's collections become `hub`
SetHub(hub) ==
    /\ active_connections' = hub.active
    /\ subscriptions' = hub.subs
    /\ symbol_subscriptions' = hub.syms

InitHub ==
    /\ active_connections = {}
    /\ subscriptions = [ch \in Channels |-> {}]
    /\ symbol_subscriptions = <<>>
    /\ subscribed_symbols = {}
    /\ ep = [c \in Conns |-> "new"]
    /\ bc = [i \in BcIds |-> IdleBc]
    /\ last_call = NoCall
    /\ last_reply = NoReply

\* send_personal(connection_id, message) up to its suspension: nothing is sent
\* to an id that is not registered
send_personal(hub, connection_id) ==
    IF connection_id \in hub.active THEN "send" ELSE "recv"

\* websocket_endpoint: a client connects; connect() registers it under a new
\* id and the initial status is being sent
Connect(c) ==
    /\ NoneEnded
    /\ ep[c] = "new"
    /\ \A d \in Conns : d < c => ep[d] # "new"
    /\ LET hub == [Hub EXCEPT !.active = @ \cup {c}]
       IN  /\ SetHub(hub)
           /\ ep' = [ep EXCEPT ![c] = send_personal(hub, c)]
           /\ bc' = Track(hub, bc)
    /\ last_call' = NoCall
    /\ last_reply' = NoReply
    /\ UNCHANGED subscribed_symbols
    /\ HubOnly

\* the send_json of send_personal returns, or raises and send_personal
\* disconnects the id; the handler goes on to receive_text()
SendReturns(c, ok) ==
    /\ NoneEnded
    /\ ep[c] = "send"
    /\ LET hub == IF ok THEN Hub ELSE disconnect(Hub, c)
       IN  /\ SetHub(hub)
           /\ bc' = Track(hub, bc)
    /\ ep' = [ep EXCEPT ![c] = "recv"]
    /\ last_call' = NoCall
    /\ last_reply' = NoReply
    /\ UNCHANGED subscribed_symbols
    /\ HubOnly

\* receive_text() returns a message: the handler acts on it and replies, or
\* ends by the exception the message made it raise, after disconnect(id)
Receive(c, msg, upstream) ==
    /\ NoneEnded
    /\ ep[c] = "recv"
    /\ LET raises == ReplyTo(msg) = "raises"
           isSub == msg.json /\ msg.object /\ msg.action = "subscribe" /\ msg.channel # ""
           isUnsub == msg.json /\ msg.object /\ msg.action = "unsubscribe" /\ msg.channel # ""
           sub == subscribe(Hub, c, msg.channel, msg.symbols)
           hub == IF raises THEN disconnect(Hub, c)
                  ELSE IF isSub THEN sub.hub
                  ELSE IF isUnsub THEN unsubscribe(Hub, c, msg.channel)
                  ELSE Hub
           registered == IF isSub /\ upstream = "registered" THEN sub.new_symbols ELSE {}
       IN  /\ (upstream # "registered") => (isSub /\ sub.new_symbols # {})
           /\ SetHub(hub)
           /\ subscribed_symbols' = subscribed_symbols \cup registered
           /\ bc' = Track(hub, bc)
           /\ ep' = [ep EXCEPT ![c] = IF raises THEN "closed" ELSE send_personal(hub, c)]
           /\ last_call' =
                  IF isSub
                  THEN CallOf("subscribe", Hub, c, msg.channel, msg.symbols, sub.new_symbols)
                  ELSE IF isUnsub
                  THEN CallOf("unsubscribe", Hub, c, msg.channel, <<>>, {})
                  ELSE NoCall
           /\ last_reply' = ReplyOf(hub, c, msg)
    /\ HubOnly

\* receive_text() raises WebSocketDisconnect: the handler disconnects the id and ends
ClientClose(c) ==
    /\ NoneEnded
    /\ ep[c] = "recv"
    /\ LET hub == disconnect(Hub, c)
       IN  /\ SetHub(hub)
           /\ bc' = Track(hub, bc)
    /\ ep' = [ep EXCEPT ![c] = "closed"]
    /\ last_call' = NoCall
    /\ last_reply' = NoReply
    /\ UNCHANGED subscribed_symbols
    /\ HubOnly

\* a broadcast goes on as one of `nexts`: suspended in its next send, or
\* ended, after the cleanup loop if the send loop went through
BcStep(i, nexts) ==
    \E b \in nexts :
        LET hub == IF b.pc = "ok" THEN DisconnectAll(Hub, b.disconnected) ELSE Hub
        IN  /\ SetHub(hub)
            /\ bc' = Track(hub, [bc EXCEPT ![i] = b])

\* broadcast_to_channel(channel, message) and broadcast_to_symbol(symbol,
\* message), up to the first suspension
Broadcast(i, kind, key0) ==
    /\ NoneEnded
    /\ bc[i].pc = "idle"
    /\ \A j \in BcIds : j < i => bc[j].pc # "idle"
    /\ LET key == IF kind = "symbol" THEN Upper(key0) ELSE key0
           known == IF kind = "channel" THEN key \in DOMAIN subscriptions
                    ELSE key \in DOMAIN symbol_subscriptions
           b0 == [IdleBc EXCEPT !.kind = kind, !.key = key]
           S == BcSet(Hub, b0)
           b == [b0 EXCEPT !.start = S, !.stayed = S \cap active_connections]
       IN  IF ~known
           THEN BcStep(i, {[b0 EXCEPT !.pc = "ok"]})
           ELSE BcStep(i, IterNext(Hub, b))
    /\ last_call' = NoCall
    /\ last_reply' = NoReply
    /\ UNCHANGED <<subscribed_symbols, ep>>
    /\ HubOnly

\* the send_json of a broadcast returns, or raises and the id is noted for
\* the cleanup; the loop goes on
BroadcastSendReturns(i, ok) ==
    /\ NoneEnded
    /\ bc[i].pc = "send"
    /\ LET b == IF ok THEN [bc[i] EXCEPT !.sent = @ \cup {bc[i].cur}]
                ELSE [bc[i] EXCEPT !.disconnected = @ \cup {bc[i].cur}]
       IN  BcStep(i, IterNext(Hub, b))
    /\ last_call' = NoCall
    /\ last_reply' = NoReply
    /\ UNCHANGED <<subscribed_symbols, ep>>
    /\ HubOnly

\* the broadcast that ended is back in its caller: the slot is free
BroadcastEnds(i) ==
    /\ bc[i].pc \in {"ok", "raised"}
    /\ bc' = [bc EXCEPT ![i] = IdleBc]
    /\ last_call' = NoCall
    /\ last_reply' = NoReply
    /\ UNCHANGED <<active_connections, subscriptions, symbol_subscriptions,
                   subscribed_symbols, ep>>
    /\ HubOnly

NextHub ==
    \/ \E c \in Conns : Connect(c)
    \/ \E c \in Conns, ok \in BOOLEAN : SendReturns(c, ok)
    \/ \E c \in Conns, msg \in Messages, upstream \in UpstreamOutcomes :
           Receive(c, msg, upstream)
    \/ \E c \in Conns : ClientClose(c)
    \/ \E i \in BcIds, key \in Channels \cup {"other"} : Broadcast(i, "channel", key)
    \/ \E i \in BcIds, key \in {"aapl", "MSFT"} : Broadcast(i, "symbol", key)
    \/ \E i \in BcIds, ok \in BOOLEAN : BroadcastSendReturns(i, ok)
    \/ \E i \in BcIds : BroadcastEnds(i)

\* The hub under clients that subscribe and unsubscribe, with per-symbol
\* broadcasts of the market stream.
NextSubs ==
    \/ \E c \in Conns : Connect(c)
    \/ \E c \in Conns, ok \in BOOLEAN : SendReturns(c, ok)
    \/ \E c \in Conns, msg \in Requests, upstream \in UpstreamOutcomes :
           Receive(c, msg, upstream)
    \/ \E c \in Conns : ClientClose(c)
    \/ \E i \in BcIds, key \in {"aapl", "MSFT"} : Broadcast(i, "symbol", key)
    \/ \E i \in BcIds, ok \in BOOLEAN : BroadcastSendReturns(i, ok)
    \/ \E i \in BcIds : BroadcastEnds(i)

(***************************************************************************)
(* The feed's callbacks (main.py): on_trade_with_alerts and                *)
(* on_quote_with_alerts await the per-symbol broadcast of the tick and     *)
(* then AlertGenerator.on_market_data; StreamManager._handle_trade and     *)
(* _handle_quote await the callback inside try/except and log what it      *)
(* raises.  The broadcast in slot i is the one of the tick in delivery.    *)
(***************************************************************************)

\* the kinds of tick the feed delivers through these callbacks
FeedKinds == {"trade", "quote"}

\* what clients send while the feed delivers
FeedMessages ==
    { Msg(TRUE, "subscribe", "market_data", <<"aapl">>),
      Msg(TRUE, "unsubscribe", "market_data", <<>>) }

\* _handle_trade / _handle_quote: the feed delivers a tick of the symbol, one
\* tick at a time; the callback begins with broadcast_to_symbol
FeedDelivers(i, key) ==
    /\ Quiet
    /\ running => ticksStarted < GenTicks
    /\ Broadcast(i, "symbol", key)

\* the broadcast returned: the callback goes on to on_market_data
on_trade_with_alerts(i, t, kind) ==
    /\ bc[i].pc = "ok"
    /\ bc' = [bc EXCEPT ![i] = IdleBc]
    /\ last_call' = NoCall
    /\ last_reply' = NoReply
    /\ UNCHANGED <<active_connections, subscriptions, symbol_subscriptions,
                   subscribed_symbols, ep>>
    /\ OnMarketData(t, kind)
    /\ UNCHANGED engineVars

\* the broadcast raised: the exception leaves the callback, and the handler
\* of the stream manager logs it
handle_trade_logs(i) ==
    /\ bc[i].pc = "raised"
    /\ BroadcastEnds(i)

\* The started generator fed by the stream, with clients that connect,
\* subscribe to the symbol, unsubscribe and leave during the fan-out.
NextFeed ==
    \/ \E c \in Conns : Connect(c)
    \/ \E c \in Conns, ok \in BOOLEAN : SendReturns(c, ok)
    \/ \E c \in Conns, msg \in FeedMessages, upstream \in UpstreamOutcomes :
           Receive(c, msg, upstream)
    \/ \E c \in Conns : ClientClose(c)
    \/ \E i \in BcIds : FeedDelivers(i, "aapl")
    \/ \E i \in BcIds, ok \in BOOLEAN : BroadcastSendReturns(i, ok)
    \/ \E i \in BcIds, t \in TaskIds, kind \in FeedKinds : on_trade_with_alerts(i, t, kind)
    \/ \E i \in BcIds : handle_trade_logs(i)
    \/ \E t \in TaskIds : Quiet /\ start(t)
    \/ \E t \in TaskIds : LoadRows(t)
    \/ \E t \in TaskIds : LoadFails(t)
    \/ \E t \in TaskIds : SwapCache(t)
    \/ \E t \in TaskIds : FlushOk(t)
    \/ \E t \in TaskIds, in_flush \in BOOLEAN : CreateAlertFails(t, in_flush)
    \/ \E t \in TaskIds, ok \in BOOLEAN : BroadcastReturns(t, ok)
    \/ \E t \in TaskIds : CommitOk(t)
    \/ \E t \in TaskIds : CommitFails(t)

(***************************************************************************)
(* The generator over a long run: the feed delivers its ticks one after    *)
(* the other without end, the rule-management layer changes the store and  *)
(* calls invalidate_cache, the application starts and stops the generator. *)
(* What on_market_data does after its refresh_rules_cache returned writes  *)
(* neither the cache, the engine nor the timestamp; the long run follows   *)
(* each tick up to there, delivering ticks whose enrichment raises.        *)
(***************************************************************************)

\* the rows of the store in the long run: one that parses, one that does not
LiveIds == {1, 3}

\* ticks whose outcome is kept at a time in the long run
LiveTicks == 1

\* the ticks of the long run
LiveKinds == {"malformed"}

\* no on_market_data call is in flight (StreamManager awaits each callback)
NoTickInFlight == \A u \in TaskIds : tasks[u].op # "tick"

\* What is kept of the ticks delivered so far (their number and their
\* outcomes) is dropped once LiveTicks of them are through, so that the feed
\* can go on delivering.
ForgetTicks ==
    /\ Quiet
    /\ ticksStarted = LiveTicks
    /\ ticksStarted' = 0
    /\ tickOutcome' = [n \in 1..MaxTicks |-> NoOutcome]
    /\ returned_at_once' = ""
    /\ UNCHANGED <<dbRules, running, rules_cache, rule_engine, last_cache_refresh,
                   lock, waiters, clock, tasks, alertsDb, hubCalls, stopped,
                   callLog, invalidation>>
    /\ GenOnly

\* a tick is delivered to on_market_data
TickArrives ==
    \E t \in TaskIds, kind \in LiveKinds :
        NoTickInFlight /\ (running => ticksStarted < LiveTicks) /\ on_market_data(t, kind)

\* the store answers the query of a refresh
LoadSucceeds == \E t \in TaskIds : LoadRows(t)

\* a suspended coroutine of the generator resumes: every await of
\* refresh_rules_cache and of invalidate_cache returns or raises
Resumes ==
    \/ \E t \in TaskIds : LockGranted(t)
    \/ LoadSucceeds
    \/ \E t \in TaskIds : LoadFails(t)
    \/ \E t \in TaskIds : SwapCache(t)

NextLive ==
    \/ TickArrives
    \/ \E t \in TaskIds : Quiet /\ start(t)
    \/ Quiet /\ stop
    \/ \E t \in TaskIds : invalidate_cache(t)
    \/ Resumes
    \/ \E id \in LiveIds : DbEnable(id)
    \/ \E id \in LiveIds : DbDisable(id)
    \/ ClockAdvance
    \/ ForgetTicks

(***************************************************************************)
(* The specifications.                                                     *)
(***************************************************************************)
\* the rule engine before any rule is added or snapshot evaluated
EngineAtRest ==
    /\ rules = <<>>
    /\ market_data = <<>>
    /\ evalOut = NotCalled
    /\ probe = NoProbe

\* the generator as constructed, over an empty store
GenAtRest ==
    /\ InitGen
    /\ dbRules = {}

InitSpecEngine == InitEngine /\ GenAtRest /\ InitHub

InitSpecGen == EngineAtRest /\ InitGen /\ InitHub

InitSpecHub == EngineAtRest /\ GenAtRest /\ InitHub

\* the generator as constructed, over a store that may hold rows whose config
\* gives no RuleDefinition
InitSpecLoad == EngineAtRest /\ InitGenOver(StoredIds) /\ InitHub

SpecEngine == InitSpecEngine /\ [][NextEngine]_vars

SpecProbe == InitSpecEngine /\ [][NextProbe]_vars

SpecGen == InitSpecGen /\ [][NextGen]_vars

SpecTicks == InitSpecGen /\ [][NextTicks]_vars

SpecHub == InitSpecHub /\ [][NextHub]_vars

SpecSubs == InitSpecHub /\ [][NextSubs]_vars

SpecRefresh == InitSpecGen /\ [][NextRefresh]_vars

SpecLoad == InitSpecLoad /\ [][NextLoad]_vars

SpecCache == InitSpecGen /\ [][NextCache]_vars

SpecFeed == InitSpecGen /\ [][NextFeed]_vars

InitSpecLive == EngineAtRest /\ InitGenOver(LiveIds) /\ InitHub

\* The long run.  The event loop resumes every coroutine whose await has
\* returned or raised, so no coroutine of the generator stays suspended
\* for ever.
SpecLive == InitSpecLive /\ [][NextLive]_vars /\ WF_vars(Resumes)

(***************************************************************************)
(* The properties.                                                         *)
(***************************************************************************)
\* C1: evaluate_all_rules returns normally for every snapshot and rule set: a
\* rule that cannot be evaluated (a filter, target or modifier meets a missing,
\* None or non-numeric field) is just not triggered, and every other enabled
\* rule that matches the snapshot is among the results.
C1_EvaluateAllFailsClosed ==
    evalOut.called =>
        /\ ~evalOut.exc
        /\ \A i \in 1..Len(evalOut.rules) :
               LET one == evaluate_rule(evalOut.rules[i], market_data)
               IN  (~one.exc /\ one.triggered) => one \in Range(evalOut.results)

\* the alerts of the store and the ids of those handed to the hub
Committed == {a.id : a \in alertsDb}

Handed == {id \in AlertIds : hubCalls[id] >= 1}

\* the on_market_data calls that have ended
EndedTicks == {n \in 1..MaxTicks : tickOutcome[n].how # ""}

\* C2: under ticks processed concurrently with cache refreshes and stop(), the
\* rule_id stored on every persisted alert is the id that the triggering rule
\* has in the rule set the tick was evaluated against, never None and never
\* another rule's id.
C2_RuleIdFromEvaluatedSet ==
    \A a \in alertsDb : a.rule_id = a.src_id

\* C3: stop() may be called at any point: once stop() has returned and every
\* operation in flight has finished, running is false, the rules cache is
\* empty and the refresh timestamp is None, until the next start().
C3_FullyStopped ==
    (stopped /\ Quiet) =>
        /\ ~running
        /\ rules_cache = {}
        /\ last_cache_refresh = NoTime

\* the connection ids in any channel or symbol subscriber set
Subscribed ==
    UNION {subscriptions[ch] : ch \in DOMAIN subscriptions}
        \cup UNION {symbol_subscriptions[sym] : sym \in DOMAIN symbol_subscriptions}

\* C4: a broadcast interleaved at its sends with connect, disconnect, subscribe,
\* unsubscribe or another cleanup completes without raising and sends the
\* message to every connection that stayed connected and subscribed for its
\* whole duration (and whose send did not fail).
C4_BroadcastToleratesMutation ==
    \A i \in BcIds :
        /\ bc[i].pc # "raised"
        /\ bc[i].pc = "ok" => bc[i].stayed \subseteq (bc[i].sent \cup bc[i].disconnected)

\* C5: in every reachable state of the hub every connection id in a channel or
\* symbol subscriber set is a registered active connection.
C5_NoSubscriptionOutlivesConnection ==
    Subscribed \subseteq active_connections

\* C6: when the send to a connection fails during a broadcast, the broadcast
\* does not raise, still sends to every other subscriber, and when it returns
\* the failed connection is absent from the active connections and from every
\* channel and symbol set, while the others remain registered.
C6_FailedSendDisconnectsOnlyThatOne ==
    \A i \in BcIds :
        (bc[i].pc \in {"ok", "raised"} /\ bc[i].disconnected # {}) =>
            /\ bc[i].pc = "ok"
            /\ (bc[i].stayed \ bc[i].disconnected) \subseteq bc[i].sent
            /\ bc[i].disconnected \cap (active_connections \cup Subscribed) = {}
            /\ (bc[i].stayed \ bc[i].disconnected) \subseteq active_connections

\* C7: when a tick triggers several rules and persisting the alert of one of
\* them fails, the alert of every other triggered rule of the tick is still
\* persisted, committed and handed to the hub (the store not failing the
\* commit itself).
C7_PersistFailureIsolated ==
    \A n \in EndedTicks :
        (tickOutcome[n].failed # {} /\ tickOutcome[n].commit # "failed") =>
            \A i \in (1..tickOutcome[n].results) \ tickOutcome[n].failed :
                <<n, i>> \in Committed \cap Handed

\* C8: every alert handed to the hub for broadcast ends up committed in the
\* store once its tick has ended, and no alert is handed to the hub twice.
C8_BroadcastOnlyPersisted ==
    /\ \A id \in Handed : id[1] \in EndedTicks => id \in Committed
    /\ \A id \in AlertIds : hubCalls[id] <= 1

\* C9: on_market_data never lets an exception out, whichever of the cache
\* refresh, the enrichment, the evaluation, the persistence, the commit or the
\* broadcast fails; afterwards the generator is still running, its lock is
\* free and the next tick is processed.
C9_TickNeverRaises ==
    /\ \A n \in 1..MaxTicks : tickOutcome[n].how # "raised"
    /\ ticksStarted > 0 => running
    /\ Quiet => lock = 0

\* a tick in which an exception was handled, and the tick after it, which
\* went through and committed an alert
C9_Witness ==
    /\ tickOutcome[1].how = "caught"
    /\ tickOutcome[2].how = "ok"
    /\ \E a \in alertsDb : a.id[1] = 2

\* the place of the rule named `name` in the list rs, and its priority
PlaceOf(rs, name) == CHOOSE i \in 1..Len(rs) : rs[i].name = name

PriorityOf(rs, name) == rs[PlaceOf(rs, name)].priority

\* the names of the rules of rs that are enabled and that md triggers
TriggeredNames(rs, md) ==
    {rs[i].name : i \in {k \in 1..Len(rs) :
                            rs[k].enabled /\ evaluate_rule(rs[k], md).triggered}}

\* alphabetical order on the rule names of RulePool
NameBefore(a, b) ==
    LET rank == [n \in {"alpha", "breakout", "disabled", "min_volume", "targets", "zeta"} |->
                    CASE n = "alpha" -> 1 [] n = "breakout" -> 2 [] n = "disabled" -> 3
                      [] n = "min_volume" -> 4 [] n = "targets" -> 5 [] n = "zeta" -> 6]
    IN  rank[a] < rank[b]

EndedCalls == {k \in 1..Len(callLog) : callLog[k].load # ""}

\* the call found a refresh timestamp less than one TTL old at its entry
WithinTTL(k) ==
    /\ callLog[k].last # NoTime
    /\ callLog[k].now - callLog[k].last < cache_ttl

\* a non-forced call within the TTL of the last refresh opens no store
\* session, and a forced call always does
TTLAndForceRespected ==
    \A k \in 1..Len(callLog) :
        /\ (~callLog[k].force /\ WithinTTL(k)) => callLog[k].load = "none"
        /\ (callLog[k].force /\ k \in EndedCalls) => callLog[k].load \in {"rows", "failed"}

C12_OneLoadAmongOverlapping ==
    \A i, j \in EndedCalls :
        (/\ i \in callLog[j].during
         /\ ~callLog[i].force /\ ~WithinTTL(i)
         /\ ~callLog[j].force /\ ~WithinTTL(j)
         /\ callLog[i].load # "failed" /\ callLog[j].load # "failed")
            => /\ callLog[j].load = "none"
               /\ callLog[i].during = {} => callLog[i].load = "rows"

\* on_market_data call n is past its refresh_rules_cache: it has evaluated the
\* rules, or has ended
PastRefresh(n) ==
    \/ tickOutcome[n].how # ""
    \/ \E t \in TaskIds : /\ tasks[t].op = "tick"
                          /\ tasks[t].tick = n
                          /\ tasks[t].pc \in {"flush", "broadcast", "commit"}

\* C13: once invalidate_cache() has returned, no tick gets to evaluate the
\* rules before a store load has begun after the invalidation, however recent
\* the previous refresh and also when the invalidation was issued while a
\* refresh was in progress.
C13_InvalidationForcesReload ==
    [][\A n \in 1..MaxTicks :
           (~PastRefresh(n) /\ PastRefresh(n)') => invalidation.st # "pending"]_vars

\* the generator was started, an invalidation that had to wait for the lock
\* returned, and the one tick after it, at the instant of the start, loaded
\* from the store and went through
C13_Witness ==
    /\ invalidation = [st |-> "reloaded", waited |-> TRUE, by |-> "tick"]
    /\ clock = 0
    /\ ticksStarted = 1
    /\ tickOutcome[1].how = "ok"
    /\ tickOutcome[1].results > 0
    /\ last_cache_refresh = 0

\* the stored rules a refresh would load now
Loadable == {id \in dbRules : parse_rule_to_definition(DbRule(id)).ok}

\* on_market_data call n is in the store query of its refresh
Loading(n) ==
    \E t \in TaskIds : tasks[t].op = "tick" /\ tasks[t].tick = n /\ tasks[t].pc = "loading"

\* C14: after a rule is created, updated, toggled or deleted through the
\* rule-management layer the cache is invalidated: a tick is evaluated against
\* the rule set as stored when it is processed, never against a rule set
\* cached before the change (a tick whose own store load fails aside).
C14_TickSeesStoredRules ==
    [][\A n \in 1..MaxTicks :
           (~PastRefresh(n) /\ PastRefresh(n)' /\ ~Loading(n))
               => Range(rule_engine') = Loadable]_vars

\* the rows whose config_yaml loads and holds at least one condition
WellFormed(ids) ==
    {id \in ids : DbRule(id).config.valid /\ DbRule(id).config.conditions # <<>>}

\* C15: a refresh whose query returned leaves out the rows whose config does
\* not parse or holds no condition, loads every other row the query returned
\* into the cache and into the new engine, in the order of the rows, and sets
\* the refresh timestamp.
C15_BadRuleSkippedRestLoaded ==
    [][\A t \in TaskIds :
           (tasks[t].pc = "closing" /\ tasks'[t].pc # "closing")
               => /\ rules_cache' = WellFormed(Range(tasks[t].loaded))
                  /\ rule_engine' = SelectSeq(tasks[t].loaded,
                                              LAMBDA id : id \in WellFormed({id}))
                  /\ last_cache_refresh' = tasks[t].now]_vars

\* one refresh over a store of two well-formed rows, one that does not
\* parse and one without conditions: the well-formed two are cached
C15_Witness ==
    /\ Len(callLog) = 1
    /\ callLog[1].load = "rows"
    /\ dbRules = StoredIds
    /\ rules_cache = RuleIds
    /\ Range(rule_engine) = RuleIds
    /\ last_cache_refresh = callLog[1].now

\* the handler of connection c calls disconnect(c) on WebSocketDisconnect
HandlerDisconnects(c) == ep[c] = "recv" /\ ep'[c] = "closed"

\* C16: immediately after disconnect(id), id is absent from the active
\* connections, from every channel set and from every symbol set; disconnect
\* of an id that is not registered (unknown, or disconnected before) changes
\* nothing.
C16_DisconnectPurgesAndIsIdempotent ==
    [][\A c \in Conns :
           /\ (HandlerDisconnects(c) \/ (c \in active_connections /\ c \notin active_connections'))
                  => c \notin active_connections' \cup Subscribed'
           /\ (HandlerDisconnects(c) /\ c \notin active_connections)
                  => UNCHANGED <<active_connections, subscriptions, symbol_subscriptions>>]_vars

\* the connections a broadcast has sent to, or tried to
Reached(b) == Visited(b)

\* broadcast i enters a send in this step
NewSend(i) == bc'[i].pc = "send" /\ (bc[i].pc # "send" \/ bc[i].cur # bc'[i].cur)

\* C17: a per-symbol broadcast sends only to connections that are active and
\* hold the symbol (compared ignoring case) when the send is made, and it
\* ends having sent to every active connection that held the symbol when it
\* began and has neither unsubscribed from market_data nor disconnected.
C17_SymbolBroadcastReachesExactlyHolders ==
    [][\A i \in BcIds :
          bc'[i].kind = "symbol" =>
              /\ NewSend(i) =>
                     bc'[i].cur \in active_connections' \cap symbol_subscriptions'[bc'[i].key]
              /\ bc'[i].pc \in {"ok", "raised"} => bc'[i].stayed \subseteq Reached(bc'[i])]_vars

\* C18: a channel broadcast ends having sent the message (once) to every
\* active connection that was subscribed to the channel when it began (and
\* stayed so), and it sends to no connection that was not subscribed then.
C18_ChannelBroadcastReachesExactlySubscribers ==
    \A i \in BcIds :
        bc[i].kind = "channel" =>
            /\ bc[i].pc \in {"ok", "raised"} => bc[i].stayed \subseteq Reached(bc[i])
            /\ Reached(bc[i]) \subseteq bc[i].start

\* C19: unsubscribe(id, "market_data") takes id out of the market_data set
\* and out of every symbol's set, and no per-symbol broadcast sends to a
\* connection that is in the symbol's set no more; unsubscribe(id, c) for
\* another channel c takes id out of c's set only and leaves the symbol sets
\* as they were.
C19_UnsubscribeMarketDataLeavesEverySymbol ==
    [][/\ last_call'.op = "unsubscribe" =>
              LET id == last_call'.connection_id
                  c == last_call'.channel
              IN  /\ subscriptions' = [subscriptions EXCEPT ![c] = @ \ {id}]
                  /\ active_connections' = active_connections
                  /\ IF c = "market_data"
                     THEN /\ SymbolsOf(Hub', id) = {}
                          /\ \A d \in Conns \ {id} : SymbolsOf(Hub', d) = SymbolsOf(Hub, d)
                     ELSE symbol_subscriptions' = symbol_subscriptions
       /\ \A i \in BcIds :
              (NewSend(i) /\ bc'[i].kind = "symbol") =>
                  bc'[i].key \in SymbolsOf(Hub', bc'[i].cur)]_vars

\* an unsubscribe from market_data by a connection that held symbols has returned
C19_Witness ==
    /\ last_call.op = "unsubscribe"
    /\ last_call.channel = "market_data"
    /\ last_call.held # {}
    /\ SymbolsOf(Hub, last_call.connection_id) = {}

\* C20 as stated: a subscribe to market_data with symbols hands to the
\* upstream feed exactly the requested symbols, upper-cased, that the
\* connection did not hold yet, and the connection is in the set of every
\* requested symbol afterwards.
C20_RegistersSymbolsNewToConnection ==
    (last_call.op = "subscribe" /\ last_call.channel = "market_data"
        /\ last_call.requested # {}) =>
        /\ last_call.handed = last_call.requested \ last_call.held
        /\ last_call.requested \subseteq SymbolsOf(Hub, last_call.connection_id)

\* C20 amended: a subscribe to market_data with symbols hands to the upstream
\* feed exactly the requested symbols, upper-cased, that no connection had
\* subscribed to before (they were no key of symbol_subscriptions), and the
\* connection is in the set of every requested symbol afterwards.
C20_RegistersSymbolsNewToHub ==
    (last_call.op = "subscribe" /\ last_call.channel = "market_data"
        /\ last_call.requested # {}) =>
        /\ last_call.handed = last_call.requested \ last_call.known
        /\ last_call.requested \subseteq SymbolsOf(Hub, last_call.connection_id)

\* a subscribe that asked for a symbol the hub knew and for one it did not
C20_Witness ==
    /\ last_call.op = "subscribe"
    /\ last_call.channel = "market_data"
    /\ last_call.handed # {}
    /\ last_call.requested \cap last_call.known # {}
    /\ last_call.requested \subseteq SymbolsOf(Hub, last_call.connection_id)

\* the channels whose subscriber set holds id
ChannelsHolding(id) == {ch \in DOMAIN subscriptions : id \in subscriptions[ch]}

\* after subscribe(id, c) the id is in c's set and the acknowledgement lists
\* c; after unsubscribe(id, c) the id is not in c's set; every status reply
\* lists exactly the channels whose set holds the id
SubscribedAndListed(names) ==
    LET id == last_reply.connection_id
        c == last_call.channel
    IN  /\ (last_call.op = "subscribe" /\ c \in names) =>
               /\ c \in ChannelsHolding(id)
               /\ c \in last_reply.subscriptions
        /\ last_call.op = "unsubscribe" => c \notin ChannelsHolding(id)
        /\ last_reply.reply = "status" => last_reply.subscriptions = ChannelsHolding(id)

\* C21 as stated: for every channel name c, after subscribe(id, c) the id is
\* in c's subscriber set and the subscriptions list of the acknowledgement
\* contains c; after unsubscribe(id, c) it does not; the list is exactly the
\* channels whose set contains id.
C21_SubscribedToAnyNamedChannel ==
    SubscribedAndListed({"alerts", "market_data", "other"})

\* C21 amended: the same for the two channels the hub has, "alerts" and
\* "market_data"; a subscribe to any other name puts the id in no set.
C21_SubscribedToHubChannel ==
    /\ SubscribedAndListed(DOMAIN subscriptions)
    /\ DOMAIN subscriptions = Channels
    /\ (last_call.op = "subscribe" /\ last_call.channel \notin Channels) =>
           last_call.channel \notin last_reply.subscriptions

\* a connection that holds "alerts" has subscribed to "market_data" and is
\* being sent the acknowledgement with both
C21_Witness ==
    /\ last_call.op = "subscribe"
    /\ last_call.channel = "market_data"
    /\ last_reply.sends
    /\ last_reply.subscriptions = {"alerts", "market_data"}

ErrorCodes == {"INVALID_JSON", "MISSING_CHANNEL", "UNKNOWN_ACTION"}

\* the reply the protocol gives for a message
ExpectedReply(msg) ==
    IF ~msg.json THEN "INVALID_JSON"
    ELSE IF msg.action = "subscribe" /\ msg.channel = "" THEN "MISSING_CHANNEL"
    ELSE IF msg.action \in {"subscribe", "unsubscribe"} THEN "status"
    ELSE IF msg.action = "ping" THEN "pong"
    ELSE "UNKNOWN_ACTION"

\* C22: to every message received the endpoint sends one reply and its
\* handler goes on: INVALID_JSON to what is no JSON, MISSING_CHANNEL to a
\* subscribe without channel, UNKNOWN_ACTION to any other or missing action,
\* pong to ping; an error reply leaves the channel and symbol sets unchanged.
C22_OneReplyPerMessage ==
    [][last_reply'.connection_id # 0 =>
          /\ last_reply'.sends
          /\ last_reply'.reply = ExpectedReply(last_reply'.msg)
          /\ ep'[last_reply'.connection_id] # "closed"
          /\ last_reply'.reply \in ErrorCodes =>
                 /\ subscriptions' = subscriptions
                 /\ symbol_subscriptions' = symbol_subscriptions]_vars

\* the generator's own state and what it has written and sent
GeneratorState ==
    <<running, rules_cache, rule_engine, last_cache_refresh, lock, waiters, tasks,
      alertsDb, hubCalls, ticksStarted, tickOutcome, callLog>>

\* an on_market_data call is in flight in slot t
TickInFlight(t) == tasks[t].op = "tick" /\ tasks[t].pc # "idle"

\* C23: while the generator is not running, an on_market_data call returns at
\* once: no tick comes into flight (so no refresh, load, evaluation,
\* persistence or broadcast is begun for it) and the call changes no state.
C23_TickWhileNotRunningIsNoOp ==
    [][/\ ~running =>
              /\ ticksStarted' = ticksStarted
              /\ \A t \in TaskIds : TickInFlight(t)' => TickInFlight(t)
       /\ returned_at_once' = "tick" =>
              /\ ~running
              /\ UNCHANGED <<GeneratorState, dbRules, hubVars>>]_vars

\* an on_market_data call has returned at once on the stopped generator,
\* whose store holds rules
C23_Witness ==
    /\ returned_at_once = "tick"
    /\ stopped
    /\ ~running
    /\ dbRules # {}

\* the forced refresh of a start() call is in flight in slot t
StartInFlight(t) == tasks[t].op = "start" /\ tasks[t].pc # "idle"

\* C24: start() on a generator that is not running sets it running and
\* begins a forced load; start() on a running generator returns at once,
\* begins no load and changes no state, so the start() calls that follow one
\* another without a stop() begin one forced load.
C24_StartIsIdempotent ==
    [][/\ (~running /\ running') =>
              \E t \in TaskIds :
                  /\ ~StartInFlight(t)
                  /\ StartInFlight(t)'
                  /\ tasks'[t].force
                  /\ tasks'[t].pc \in {"loading", "waitlock"}
       /\ running => \A t \in TaskIds : StartInFlight(t)' => StartInFlight(t)
       /\ returned_at_once' = "start" =>
              /\ running
              /\ UNCHANGED <<GeneratorState, dbRules, hubVars>>]_vars

\* a second start() has returned at once after the load of the first
C24_Witness ==
    /\ returned_at_once = "start"
    /\ running
    /\ last_cache_refresh # NoTime
    /\ \A t \in TaskIds : ~StartInFlight(t)

\* C25: stop() with no other operation in flight leaves the generator not
\* running, its rules cache empty and its refresh timestamp None; the
\* start() that follows sets it running and begins a forced load from the
\* store.
C25_StopClearsAndStartReloads ==
    [][/\ (Quiet /\ ~stopped /\ stopped') =>
              /\ ~running'
              /\ rules_cache' = {}
              /\ last_cache_refresh' = NoTime
              /\ Quiet'
       /\ (Quiet /\ stopped /\ ~stopped') =>
              /\ running'
              /\ \E t \in TaskIds :
                     /\ StartInFlight(t)'
                     /\ tasks'[t].force
                     /\ tasks'[t].pc = "loading"]_vars

\* stop() has returned on a generator that had loaded rules, nothing else
\* being in flight
C25_Witness ==
    /\ stopped
    /\ Quiet
    /\ rule_engine # <<>>
    /\ ~running
    /\ rules_cache = {}
    /\ last_cache_refresh = NoTime

(***************************************************************************)
(* The engine's functions, each on its own (SpecProbe)                     *)
(***************************************************************************)

\* a value float() accepts: a number or a numeric string
Coercible(v) == v.t \in {"num", "numstr"}

\* the reference of evaluate_condition: false for a field absent or None;
\* else the comparison with the snapshot field the value names, or with the
\* literal; false when a side is not a number
ReferenceCondition(condition, md) ==
    LET present == condition.field \in DOMAIN md /\ md[condition.field].t # "none"
        v == IF IsStr(condition.value) /\ condition.value.s \in DOMAIN md
             THEN md[condition.value.s]
             ELSE condition.value
    IN  IF ~present THEN FALSE
        ELSE IF ~Coercible(md[condition.field]) \/ ~Coercible(v) THEN FALSE
        ELSE OPERATORS(condition.operator, md[condition.field].n, v.n)

\* C26: for every condition and snapshot evaluate_condition does not raise
\* and returns what the reference gives: false for a field absent or None,
\* else the comparison of the field with the snapshot field the value names
\* or with the literal value, false when either side is not a number.
C26_EvaluateConditionMatchesReference ==
    probe.fn = "evaluate_condition" =>
        /\ ~probe.raised
        /\ probe.out = ReferenceCondition(probe.condition, probe.md)

\* C26 for the conditions and snapshots that hold no int beyond float
C26_MatchesReferenceWithinFloat ==
    (/\ probe.fn = "evaluate_condition"
     /\ probe.condition.value # Big) =>
        /\ ~probe.raised
        /\ probe.out = ReferenceCondition(probe.condition, probe.md)

\* a condition whose value is an int beyond float, on a field that is a number
C26_RaisesOnBigValue ==
    /\ probe.fn = "evaluate_condition"
    /\ probe.condition.value = Big
    /\ probe.raised

\* every condition of the list is true in the snapshot
EveryConditionTrue(conditions, md) ==
    \A k \in 1..Len(conditions) : ReferenceCondition(conditions[k], md)

\* what evaluate_rule returned has AND semantics
AndSemantics(rule, md, out) ==
    /\ out.triggered <=>
           /\ rule.enabled
           /\ check_filters(rule.filters, md) = "pass"
           /\ EveryConditionTrue(rule.conditions, md)
    /\ ~EveryConditionTrue(rule.conditions, md) =>
           /\ ~out.triggered
           /\ out.matched_conditions = <<>>
           /\ out.entry_price = NoneV
           /\ out.stop_loss = NoneV
           /\ out.target_price = NoneV
    /\ out.triggered =>
           /\ Len(out.matched_conditions) = Len(rule.conditions)
           /\ out.entry_price = DictGet(md, "price")

\* C27: evaluate_rule returns triggered exactly when the rule is enabled,
\* its filters pass and every condition is true; with a condition that is
\* false it returns not triggered, no matched condition and no entry,
\* stop-loss or target price, whatever the other conditions are; on a full
\* match there is one matched condition per condition and the entry price is
\* the snapshot's price.
C27_EvaluateRuleHasAndSemantics ==
    probe.fn = "evaluate_rule" =>
        /\ ~probe.raised
        /\ AndSemantics(probe.rule, probe.md, probe.out)

\* C27 for the calls of evaluate_rule that return
C27_AndSemanticsWhenItReturns ==
    (probe.fn = "evaluate_rule" /\ ~probe.raised) =>
        AndSemantics(probe.rule, probe.md, probe.out)

\* enabled, filters passed, every condition true, and calculate_targets raised
C27_FullMatchRaises ==
    /\ probe.fn = "evaluate_rule"
    /\ probe.raised
    /\ probe.rule.enabled
    /\ check_filters(probe.rule.filters, probe.md) = "pass"
    /\ probe.rule.conditions # <<>>
    /\ EveryConditionTrue(probe.rule.conditions, probe.md)

\* a later condition is false, and an earlier one raised
C27_FalseConditionRaises ==
    /\ probe.fn = "evaluate_rule"
    /\ probe.raised
    /\ check_filters(probe.rule.filters, probe.md) = "pass"
    /\ Len(probe.rule.conditions) = 2
    /\ probe.rule.conditions[1].value = Big
    /\ ~ReferenceCondition(probe.rule.conditions[2], probe.md)

\* a rule of two conditions returned triggered, and one returned not
\* triggered with its first condition true and its second false
C27_ReturnsOnTwoConditions ==
    /\ probe.fn = "evaluate_rule"
    /\ ~probe.raised
    /\ Len(probe.rule.conditions) = 2
    /\ probe.rule.enabled
    /\ \/ probe.out.triggered
       \/ /\ ReferenceCondition(probe.rule.conditions[1], probe.md)
          /\ ~ReferenceCondition(probe.rule.conditions[2], probe.md)

\* a configured bound fails: the price is below min_price or above
\* max_price, or the volume is below min_volume
ConfiguredBoundFails(filters, md) ==
    LET price == DictGet(md, "price")
        volume == DictGet(md, "volume")
    IN  \/ filters.min_price.t = "num" /\ price.t = "num" /\ price.n < filters.min_price.n
        \/ filters.max_price.t = "num" /\ price.t = "num" /\ price.n > filters.max_price.n
        \/ filters.min_volume.t = "num" /\ volume.t = "num"
             /\ volume.n < filters.min_volume.n

FiltersGate(rule, md, raised, out) ==
    /\ (rule.filters.present /\ ConfiguredBoundFails(rule.filters, md)) =>
           (~raised /\ ~out.triggered)
    /\ (/\ ~rule.filters.present
        /\ rule.enabled
        /\ EveryConditionTrue(rule.conditions, md)
        /\ ~raised) => out.triggered

\* C28: for every rule with filters and every snapshot, when a configured
\* bound fails (price below min_price, price above max_price, volume below
\* min_volume) evaluate_rule returns not triggered whatever the conditions
\* are; a rule with no filters is never held back by the gate.
C28_FiltersArePreGate ==
    probe.fn = "evaluate_rule" =>
        FiltersGate(probe.rule, probe.md, probe.raised, probe.out)

\* C28 for the filters whose configured bounds are not 0
C28_PreGateForNonZeroBounds ==
    (/\ probe.fn = "evaluate_rule"
     /\ probe.rule.filters.max_price # Num(0)) =>
        FiltersGate(probe.rule, probe.md, probe.raised, probe.out)

\* a failing min_price, max_price and min_volume each blocked a rule whose
\* conditions are true or raise
C28_BoundBlocked ==
    /\ probe.fn = "evaluate_rule"
    /\ probe.rule.enabled
    /\ ConfiguredBoundFails(probe.rule.filters, probe.md)
    /\ MatchConditions(probe.rule.conditions, probe.md) # "nomatch"
    /\ probe.rule.conditions # <<>>
    /\ ~probe.raised /\ ~probe.out.triggered

\* a max_price of 0 let a price of 150 through
C28_ZeroMaxPriceTriggers ==
    /\ probe.fn = "evaluate_rule"
    /\ probe.rule.filters.max_price = Num(0)
    /\ probe.md["price"] = Num(150)
    /\ probe.out.triggered

\* a modifier's condition "field operator literal" is true in the snapshot
ModifierHolds(tokens, md) ==
    /\ Len(tokens) = 3
    /\ tokens[1].s \in DOMAIN md
    /\ Coercible(md[tokens[1].s])
    /\ tokens[2].s \in OperatorType
    /\ Coercible(tokens[3])
    /\ OPERATORS(tokens[2].s, md[tokens[1].s].n, tokens[3].n)

\* a modifier that does not parse, or whose field is missing or None
Unparsable(tokens, md) ==
    \/ Len(tokens) # 3
    \/ /\ Len(tokens) = 3
       /\ \/ tokens[1].s \notin DOMAIN md
          \/ md[tokens[1].s].t = "none"
          \/ tokens[2].s \notin OperatorType
          \/ ~Coercible(tokens[3])

\* the sum of the adjustments of the first n modifiers that hold
RECURSIVE AdjustmentsOfHolding(_, _, _)
AdjustmentsOfHolding(modifiers, n, md) ==
    IF n = 0 THEN 0
    ELSE AdjustmentsOfHolding(modifiers, n - 1, md)
         + (IF ModifierHolds(modifiers[n].condition, md)
            THEN modifiers[n].adjustment ELSE 0)

\* a score in hundredths clamped to [0, 1]
Clamped(score) == IF score < 0 THEN 0 ELSE IF score > 100 THEN 100 ELSE score

ReferenceScore(confidence_config, md) ==
    confidence_config.base_score
    + AdjustmentsOfHolding(confidence_config.modifiers,
                           Len(confidence_config.modifiers), md)

C29_ClampedAtZero ==
    /\ probe.fn = "calculate_confidence"
    /\ probe.confidence.present
    /\ ReferenceScore(probe.confidence, probe.md) < 0
    /\ probe.out = 0

\* C30: in calculate_targets, with target_rr_ratio set and no target_percent,
\* the target price is not None only when the same call computed a
\* stop-loss; with no stop-loss setting, or with stop_loss_atr_multiplier and
\* no atr in the snapshot, the target price is None.
C30_RatioTargetNeedsStopLoss ==
    (/\ probe.fn = "calculate_targets"
     /\ probe.targets.present
     /\ probe.targets.target_rr_ratio # 0
     /\ probe.targets.target_percent = 0) =>
        /\ (~probe.raised /\ probe.out.target_price # NoneV) =>
               probe.out.stop_loss # NoneV
        /\ (/\ probe.targets.stop_loss_percent = 0
            /\ probe.targets.stop_loss_atr_multiplier = 0) =>
               (~probe.raised /\ probe.out.target_price = NoneV)
        /\ (/\ probe.targets.stop_loss_percent = 0
            /\ probe.targets.stop_loss_atr_multiplier # 0
            /\ "atr" \notin DOMAIN probe.md) =>
               (~probe.raised /\ probe.out.target_price = NoneV)

\* a ratio and an ATR stop-loss on a snapshot without atr: no target price
C30_Witness ==
    /\ probe.fn = "calculate_targets"
    /\ probe.targets.target_rr_ratio # 0
    /\ probe.targets.target_percent = 0
    /\ probe.targets.stop_loss_atr_multiplier # 0
    /\ probe.entry_price = Num(150)
    /\ "atr" \notin DOMAIN probe.md
    /\ probe.out.stop_loss = NoneV
    /\ probe.out.target_price = NoneV

\* a ratio with a stop-loss computed from atr: a target price
C30_RatioTargetComputed ==
    /\ probe.fn = "calculate_targets"
    /\ probe.targets.target_rr_ratio # 0
    /\ probe.targets.target_percent = 0
    /\ probe.targets.stop_loss_atr_multiplier # 0
    /\ probe.out.stop_loss # NoneV
    /\ probe.out.target_price # NoneV

\* the stop-loss of the reference, in hundredths: the percent one when
\* stop_loss_percent is set, else the ATR one when the multiplier is set and
\* the snapshot has a numeric atr, else None
ReferenceStopLoss(entry_price, targets, md) ==
    IF targets.stop_loss_percent # 0
    THEN Num(entry_price.n * (100 + targets.stop_loss_percent))
    ELSE IF /\ targets.stop_loss_atr_multiplier # 0
            /\ "atr" \in DOMAIN md
            /\ md["atr"].t = "num"
         THEN Num(100 * (entry_price.n - md["atr"].n * targets.stop_loss_atr_multiplier))
    ELSE NoneV

\* the target of the reference: the percent one when target_percent is set,
\* else the ratio one when the ratio is set and a stop-loss was computed
ReferenceTarget(entry_price, targets, md) ==
    LET stop_loss == ReferenceStopLoss(entry_price, targets, md)
    IN  IF targets.target_percent # 0
        THEN Num(entry_price.n * (100 + targets.target_percent))
        ELSE IF targets.target_rr_ratio # 0 /\ stop_loss # NoneV
             THEN Num(100 * entry_price.n
                      + (100 * entry_price.n - stop_loss.n) * targets.target_rr_ratio)
        ELSE NoneV

TargetsAsReference ==
    /\ probe.out.stop_loss = ReferenceStopLoss(probe.entry_price, probe.targets, probe.md)
    /\ probe.out.target_price = ReferenceTarget(probe.entry_price, probe.targets, probe.md)

\* C31: calculate_targets takes one strategy per side, the percent one
\* first: the stop-loss is entry * (1 + stop_loss_percent / 100) when the
\* percent is set, else entry - atr * multiplier when the multiplier is set
\* and atr is present, else None; the target is entry * (1 + target_percent
\* / 100) when the percent is set, else entry + (entry - stop_loss) * ratio
\* when the ratio is set and a stop-loss was computed, whatever its value,
\* else None.
C31_OneStrategyPerSidePercentFirst ==
    (/\ probe.fn = "calculate_targets"
     /\ probe.targets.present
     /\ ~probe.raised) => TargetsAsReference

\* C31 for the calls whose stop-loss and atr are not 0
C31_PercentFirstForNonZeroStopLoss ==
    (/\ probe.fn = "calculate_targets"
     /\ probe.targets.present
     /\ ~probe.raised
     /\ ReferenceStopLoss(probe.entry_price, probe.targets, probe.md) # Num(0)
     /\ DictGet(probe.md, "atr") # Num(0)) => TargetsAsReference

\* both strategies of a side set: the percent one was taken
C31_PercentTaken ==
    /\ probe.fn = "calculate_targets"
    /\ probe.targets.target_percent # 0
    /\ probe.targets.target_rr_ratio # 0
    /\ probe.targets.stop_loss_atr_multiplier # 0
    /\ probe.entry_price = Num(150)
    /\ probe.out.target_price = Num(150 * (100 + probe.targets.target_percent))

(***************************************************************************)
(* The generator's cache when the store fails (SpecRefresh, SpecCache)     *)
(***************************************************************************)

\* the store load of task t fails in this step
LoadFailsIn(t) ==
    /\ tasks[t].pc = "loading"
    /\ tasks'[t].pc \notin {"loading", "closing"}

\* the failed refresh_rules_cache call of task t returns, and cache, engine
\* and timestamp are as they were
FailedLoadLeavesAll(t) ==
    /\ callLog'[tasks[t].call].load = "failed"
    /\ UNCHANGED <<rules_cache, rule_engine, last_cache_refresh>>

\* a refresh_rules_cache(force=False) entered now would go to the store
NextUnforcedLoads == ~Fresh(FALSE, clock)

\* C32: a refresh_rules_cache whose store load fails does not raise and
\* leaves the rules cache, the engine and the refresh timestamp as they
\* were; the next non-forced refresh attempts the load again.
C32_FailedLoadLeavesStateAndRetries ==
    [][\A t \in TaskIds :
           LoadFailsIn(t) => (FailedLoadLeavesAll(t) /\ NextUnforcedLoads')]_vars

\* C32 as the code has it: the next non-forced refresh attempts the load
\* again when the failed call was not forced, or found no refresh timestamp
\* or one that is a TTL old.
C32_FailedLoadLeavesStateUnforcedRetries ==
    [][\A t \in TaskIds :
           LoadFailsIn(t) =>
               /\ FailedLoadLeavesAll(t)
               /\ (~tasks[t].force \/ ~Fresh(FALSE, tasks[t].now)) => NextUnforcedLoads']_vars

\* a non-forced call has failed a TTL after the rules were loaded: they are
\* still cached, with the timestamp of their load
C32_Witness ==
    /\ Quiet
    /\ \E k \in 1..Len(callLog) :
           /\ callLog[k].load = "failed"
           /\ ~callLog[k].force
           /\ callLog[k].last # NoTime
           /\ last_cache_refresh = callLog[k].last
           /\ callLog[k].now = clock
    /\ rules_cache # {}
    /\ Range(rule_engine) = rules_cache

\* C33: after any sequence of start, stop, refreshes, invalidations and
\* ticks the rules loaded in the active engine are the rules in the rules
\* cache (the swap of a refresh is one step); so after stop(), and after a
\* stop() followed by a start() whose load fails, the engine holds no rule
\* that is missing from the cache.
C33_EngineHoldsTheCachedRules ==
    Range(rule_engine) = rules_cache

\* a generator stopped and started again, both loads since having failed,
\* has committed an alert of a rule that is in the engine and not in the cache
C33_AlertOfRuleLoadedBeforeStop ==
    /\ running /\ ~stopped /\ Quiet
    /\ rules_cache = {}
    /\ last_cache_refresh = NoTime
    /\ tasks = [t \in TaskIds |-> IdleTask]
    /\ \E a \in alertsDb :
           /\ a.rule_id = 0
           /\ a.src_id \in Range(rule_engine)
           /\ tickOutcome[a.id[1]].how = "caught"

(***************************************************************************)
(* The hub and the upstream feed (SpecSubs)                                *)
(***************************************************************************)

\* the subscribe(id, "market_data", symbols) call that has just returned
\* handed to the upstream feed every requested symbol of `among`
SubscribeHandsOver(among) ==
    (last_call'.op = "subscribe" /\ last_call'.channel = "market_data") =>
        (last_call'.requested \cap among) \subseteq last_call'.handed

\* C34: a symbol a connection is subscribed to has been registered with the
\* upstream feed: a subscribe for a symbol whose upstream registration has
\* failed or was skipped, by the same or another connection, attempts the
\* registration again.
C34_UnregisteredSymbolIsRetried ==
    [][SubscribeHandsOver({"AAPL", "MSFT"} \ subscribed_symbols)]_vars

\* a subscribe hands to the upstream feed the symbols no connection has
\* asked for before
C34_FirstRequestIsHandedOver ==
    [][SubscribeHandsOver({"AAPL", "MSFT"} \ DOMAIN symbol_subscriptions)]_vars

\* every symbol with a subscriber is registered upstream
C34_SubscribedSymbolsAreRegistered ==
    \A sym \in DOMAIN symbol_subscriptions :
        symbol_subscriptions[sym] # {} => sym \in subscribed_symbols

(***************************************************************************)
(* The feed's callbacks (SpecFeed)                                         *)
(***************************************************************************)

\* the per-symbol broadcast of the tick in delivery is over in this step,
\* having ended as `how`
TickBroadcastOver(i, how) ==
    /\ bc[i].kind = "symbol"
    /\ bc[i].pc \in how
    /\ bc'[i].pc = "idle"

\* on_market_data is entered for a tick in this step
TickHandedToGenerator == ticksStarted' = ticksStarted + 1

\* C35: for every trade or quote tick the feed delivers while the generator
\* is running, on_market_data is invoked, also when the per-symbol broadcast
\* of the tick fails or raises.
C35_EveryTickReachesGenerator ==
    [][\A i \in BcIds :
           (running /\ TickBroadcastOver(i, {"ok", "raised"})) => TickHandedToGenerator]_vars

\* C35 for the ticks whose broadcast returns, its sends failing or not
C35_TickReachesGeneratorAfterBroadcast ==
    [][\A i \in BcIds :
           (running /\ TickBroadcastOver(i, {"ok"})) => TickHandedToGenerator]_vars

\* a tick whose broadcast had a failed send has been handed to the generator
C35_TickAfterFailedSend ==
    /\ ticksStarted = 1
    /\ \E c \in Conns : ep[c] # "new" /\ c \notin active_connections /\ ep[c] # "closed"

(***************************************************************************)
(* Symbol subscribers and the market_data channel.                         *)
(***************************************************************************)

\* the connection ids held by some symbol's subscriber set
SymbolSubscribers == UNION {symbol_subscriptions[sym] : sym \in DOMAIN symbol_subscriptions}

\* C36: in every reachable state of the hub, every connection id contained in
\* any symbol subscriber set is also contained in the market_data channel
\* subscriber set.
C36_SymbolSubscribersAreOnMarketData ==
    SymbolSubscribers \subseteq subscriptions["market_data"]

\* a connection holds a symbol after another one, which held the same symbol,
\* has left the market_data channel
C36_Witness ==
    /\ last_call.op = "unsubscribe"
    /\ last_call.channel = "market_data"
    /\ last_call.held # {}
    /\ \E id \in SymbolSubscribers : id # last_call.connection_id
    /\ last_call.connection_id \notin subscriptions["market_data"]

(***************************************************************************)
(* What an operation on one connection id leaves alone.                    *)
(***************************************************************************)

\* the hub's collections after the step
HubAfter == [active |-> active_connections', subs |-> subscriptions',
             syms |-> symbol_subscriptions']

\* the step is a subscribe, an unsubscribe or a disconnect applied to id c:
\* the handler of c made the call on a request, or disconnected c on a
\* message that made it raise, on the client's close or on a failed send
AppliedTo(c) ==
    \/ /\ last_call'.op \in {"subscribe", "unsubscribe"}
       /\ last_call'.connection_id = c
    \/ HandlerDisconnects(c)
    \/ /\ ep[c] = "send" /\ ep'[c] = "recv"
       /\ c \in active_connections /\ c \notin active_connections'

\* registration and memberships of every id but c are what they were
OthersKeep(c) ==
    \A d \in Conns \ {c} :
        /\ (d \in HubAfter.active) = (d \in Hub.active)
        /\ get_subscriptions(HubAfter, d) = get_subscriptions(Hub, d)
        /\ SymbolsOf(HubAfter, d) = SymbolsOf(Hub, d)

\* C37: subscribe, unsubscribe and disconnect applied to one connection id
\* leave the registration and the channel and symbol memberships of every
\* other connection id unchanged.
C37_OtherConnectionsAreLeftAlone ==
    [][\A c \in Conns : AppliedTo(c) => OthersKeep(c)]_vars

\* a connection has just left market_data and with it a symbol that another,
\* still registered, connection goes on holding
C37_Witness ==
    /\ last_call.op = "unsubscribe"
    /\ last_call.channel = "market_data"
    /\ \E d \in active_connections \ {last_call.connection_id} :
           /\ d \in subscriptions["market_data"]
           /\ SymbolsOf(Hub, d) \cap last_call.held # {}

(***************************************************************************)
(* The engine catches up with the store (SpecLive).                        *)
(***************************************************************************)

\* the store's enabled rows whose configuration gives a RuleDefinition
ParsableEnabled == {id \in dbRules : parse_rule_to_definition(DbRule(id)).ok}

EngineMatchesStore == Range(rule_engine) = ParsableEnabled

\* the store's set of enabled rules stops changing
StoreSettles == <>[][dbRules' = dbRules]_vars

\* the generator stays running
StaysRunning == <>[]running

\* ticks keep arriving
TicksKeepArriving == []<><<TickArrives>>_vars

\* store loads eventually succeed: if loads go on being made, some succeed
LoadsEventuallySucceed == SF_vars(LoadSucceeds)

\* as long as the engine differs from the store, invalidate_cache is called
\* or the TTL of the timestamp expires
InvalidatedOrExpired ==
    []<>(\/ EngineMatchesStore
         \/ last_cache_refresh = NoTime
         \/ clock - last_cache_refresh >= cache_ttl)

\* C38: if the store's set of enabled rules stops changing, the generator
\* stays running, ticks keep arriving, store loads eventually succeed and
\* either invalidate_cache() is called after the last change or the TTL
\* expires, then eventually the engine's rule set equals the store's enabled,
\* parsable rules and remains equal from then on.
C38_EngineCatchesUpWithStore ==
    (/\ StoreSettles
     /\ StaysRunning
     /\ TicksKeepArriving
     /\ LoadsEventuallySucceed
     /\ InvalidatedOrExpired)
        => <>[]EngineMatchesStore

\* the running generator's engine holds the parsable row, and not the broken
\* one, of a store that enables both, by a load made after an invalidation
C38_Witness ==
    /\ running
    /\ dbRules = LiveIds
    /\ invalidation.st = "reloaded"
    /\ rule_engine # <<>>
    /\ EngineMatchesStore

====
